---- MODULE Spec2Model ----
(***************************************************************************)
(* A model of @agent-id/nextjs: the agent detector (detect.ts), the JWKS   *)
(* cache and token verifier (verify.ts) and the proxy (middleware.ts).     *)
(*                                                                         *)
(* Text (header values, URLs, User-Agent strings) is a tuple of            *)
(* one-character strings, so that prefix tests, trimming, case folding and *)
(* pattern matching are computed rather than assumed.  A compact JWT is one *)
(* opaque run of non-blank characters; it is a single element of such a    *)
(* tuple and JwtTable gives what it decodes to.                            *)
(***************************************************************************)
EXTENDS Integers, Sequences, FiniteSets, TLC

(***************************************************************************)
(* Text helpers (the JavaScript String methods the source uses).           *)
(***************************************************************************)
UpperChars == <<"A","B","C","D","E","F","G","H","I","J","K","L","M",
                "N","O","P","Q","R","S","T","U","V","W","X","Y","Z">>
LowerChars == <<"a","b","c","d","e","f","g","h","i","j","k","l","m",
                "n","o","p","q","r","s","t","u","v","w","x","y","z">>
DigitChars == {"0","1","2","3","4","5","6","7","8","9"}

Range(s) == {s[i] : i \in DOMAIN s}

\* One character folded to lower case (the /i flag, URL host and scheme).
LowerChar(c) ==
    IF c \in Range(UpperChars)
    THEN LowerChars[CHOOSE i \in DOMAIN UpperChars : UpperChars[i] = c]
    ELSE c

ToLower(s) == [i \in DOMAIN s |-> LowerChar(s[i])]

\* \w of a regular expression.
IsWordChar(c) ==
    c \in Range(UpperChars) \cup Range(LowerChars) \cup DigitChars \cup {"_"}

\* White space removed by String.prototype.trim.
IsSpace(c) == c \in {" ", "\t", "\n", "\r"}

\* String.prototype.startsWith
StartsWith(s, p) == Len(s) >= Len(p) /\ SubSeq(s, 1, Len(p)) = p

\* String.prototype.slice(n)
Slice(s, n) == IF n >= Len(s) THEN <<>> ELSE SubSeq(s, n + 1, Len(s))

\* String.prototype.trim
Trim(s) ==
    LET keep == {i \in DOMAIN s : ~IsSpace(s[i])}
    IN  IF keep = {} THEN <<>>
        ELSE LET lo == CHOOSE i \in keep : \A j \in keep : i <= j
                 hi == CHOOSE i \in keep : \A j \in keep : j <= i
             IN  SubSeq(s, lo, hi)

\* First position at or after `from` where p occurs in s, 0 when there is none.
IndexOf(s, p, from) ==
    LET hits == {i \in from..(Len(s) - Len(p) + 1) : SubSeq(s, i, i + Len(p) - 1) = p}
    IN  IF hits = {} THEN 0 ELSE CHOOSE i \in hits : \A j \in hits : i <= j

\* A function with one more, or one less, argument.
Put(f, k, v) == [a \in DOMAIN f \cup {k} |-> IF a = k THEN v ELSE f[a]]
Drop(f, k)   == [a \in DOMAIN f \ {k} |-> f[a]]

(***************************************************************************)
(* Headers: a function from lower-case header names to their values.        *)
(***************************************************************************)
HasHeader(headers, name) == name \in DOMAIN headers

\* Headers.get(name) ?? ""
GetOrEmpty(headers, name) == IF HasHeader(headers, name) THEN headers[name] ELSE <<>>

\* Headers.delete(name)
DeleteHeader(headers, name) == Drop(headers, name)

\* Headers.set(name, value)
SetHeader(headers, name, value) == Put(headers, name, value)

(***************************************************************************)
(* detect.ts                                                               *)
(***************************************************************************)
\* A pattern /lit/i, with \b before it (wbStart) or after it (wbEnd).
\* Every literal starts and ends with the characters written in the source;
\* /\bgot\b\//i is the literal "got/" with \b before it: the inner \b lies
\* between "t" and "/" and always holds.
Pat(lit, wbStart, wbEnd) == [lit |-> lit, wbStart |-> wbStart, wbEnd |-> wbEnd]

BOT_UA_PATTERNS == <<
    Pat(<<"g","p","t","b","o","t">>, FALSE, FALSE),
    Pat(<<"c","h","a","t","g","p","t","-","u","s","e","r">>, FALSE, FALSE),
    Pat(<<"o","a","i","-","s","e","a","r","c","h","b","o","t">>, FALSE, FALSE),
    Pat(<<"c","l","a","u","d","e","b","o","t">>, FALSE, FALSE),
    Pat(<<"c","l","a","u","d","e","-","w","e","b">>, FALSE, FALSE),
    Pat(<<"a","n","t","h","r","o","p","i","c","-","a","i">>, FALSE, FALSE),
    Pat(<<"c","l","a","u","d","e","-","u","s","e","r">>, FALSE, FALSE),
    Pat(<<"g","o","o","g","l","e","b","o","t">>, FALSE, FALSE),
    Pat(<<"g","o","o","g","l","e","-","e","x","t","e","n","d","e","d">>, FALSE, FALSE),
    Pat(<<"a","d","s","b","o","t","-","g","o","o","g","l","e">>, FALSE, FALSE),
    Pat(<<"b","i","n","g","b","o","t">>, FALSE, FALSE),
    Pat(<<"m","s","n","b","o","t">>, FALSE, FALSE),
    Pat(<<"p","e","r","p","l","e","x","i","t","y","b","o","t">>, FALSE, FALSE),
    Pat(<<"y","o","u","b","o","t">>, FALSE, FALSE),
    Pat(<<"p","y","t","h","o","n","-","r","e","q","u","e","s","t","s">>, FALSE, FALSE),
    Pat(<<"n","o","d","e","-","f","e","t","c","h">>, FALSE, FALSE),
    Pat(<<"a","x","i","o","s">>, TRUE, TRUE),
    Pat(<<"g","o","t","/">>, TRUE, FALSE),
    Pat(<<"u","n","d","i","c","i">>, TRUE, TRUE),
    Pat(<<"c","u","r","l">>, TRUE, TRUE),
    Pat(<<"w","g","e","t">>, TRUE, TRUE),
    Pat(<<"h","t","t","p","i","e">>, TRUE, TRUE),
    Pat(<<"b","o","t">>, TRUE, TRUE),
    Pat(<<"c","r","a","w","l","e","r">>, TRUE, TRUE),
    Pat(<<"s","p","i","d","e","r">>, TRUE, TRUE),
    Pat(<<"s","c","r","a","p","e","r">>, TRUE, TRUE),
    Pat(<<"f","e","t","c","h","e","r">>, TRUE, TRUE),
    Pat(<<"m","c","p","-","c","l","i","e","n","t">>, FALSE, FALSE),
    Pat(<<"a","g","e","n","t","i","d","-","c","l","i","e","n","t">>, FALSE, FALSE) >>

BROWSER_UA_RE == Pat(<<"m","o","z","i","l","l","a","/","5",".","0">>, FALSE, FALSE)

\* \b at the gap before position i of s (i in 1..Len(s)+1).
WordBoundary(s, i) ==
    LET before == i > 1 /\ IsWordChar(s[i - 1])
        after  == i <= Len(s) /\ IsWordChar(s[i])
    IN  before # after

\* RegExp.prototype.test for one pattern.
Test(p, s) ==
    LET low == ToLower(s)
        n   == Len(p.lit)
    IN  \E i \in 1..(Len(s) - n + 1) :
            /\ SubSeq(low, i, i + n - 1) = p.lit
            /\ p.wbStart => WordBoundary(s, i)
            /\ p.wbEnd => WordBoundary(s, i + n)

\* A classifier that trusts the browser marker before it looks for a
\* signature.
isAgentRequestBrowserFirst(headers) ==
    LET ua == GetOrEmpty(headers, "user-agent")
    IN  IF ua = <<>> THEN TRUE
        ELSE IF Test(BROWSER_UA_RE, ua) THEN FALSE
        ELSE IF \E k \in DOMAIN BOT_UA_PATTERNS : Test(BOT_UA_PATTERNS[k], ua) THEN TRUE
        ELSE GetOrEmpty(headers, "accept-language") = <<>>

isAgentRequest(headers) ==
    LET ua == GetOrEmpty(headers, "user-agent")
    IN  IF ua = <<>> THEN TRUE
        ELSE IF \E k \in DOMAIN BOT_UA_PATTERNS : Test(BOT_UA_PATTERNS[k], ua) THEN TRUE
        ELSE IF ~Test(BROWSER_UA_RE, ua) /\ GetOrEmpty(headers, "accept-language") = <<>>
             THEN TRUE
        ELSE FALSE

\* The result of extractToken: null, or a non-empty string.
Null == <<"\\null">>

\* An extractor that asks the fallback header first.
extractTokenFallbackFirst(headers) ==
    LET auth   == GetOrEmpty(headers, "authorization")
        token  == Trim(Slice(auth, 7))
        custom == Trim(GetOrEmpty(headers, "x-agentid-token"))
    IN  IF HasHeader(headers, "x-agentid-token") /\ custom # <<>> THEN custom
        ELSE IF StartsWith(auth, <<"B","e","a","r","e","r"," ">>) /\ token # <<>> THEN token
        ELSE Null

extractToken(headers) ==
    LET auth   == GetOrEmpty(headers, "authorization")
        token  == Trim(Slice(auth, 7))
        custom == Trim(GetOrEmpty(headers, "x-agentid-token"))
    IN  IF StartsWith(auth, <<"B","e","a","r","e","r"," ">>) /\ token # <<>> THEN token
        ELSE IF HasHeader(headers, "x-agentid-token") /\ custom # <<>> THEN custom
        ELSE Null

(***************************************************************************)
(* new URL(rawUrl): the WHATWG URL parser, for an absolute URL string.     *)
(* Only url.protocol and url.hostname are read by the source.  IPv4        *)
(* shorthand ("127.1") and percent-decoding are not modelled.              *)
(***************************************************************************)
SpecialSchemes == {<<"h","t","t","p">>, <<"h","t","t","p","s">>, <<"f","t","p">>, <<"w","s">>, <<"w","s","s">>, <<"f","i","l","e">>}
HexChars == DigitChars \cup {"a","b","c","d","e","f","A","B","C","D","E","F"}
SchemeChars == Range(UpperChars) \cup Range(LowerChars) \cup DigitChars \cup {"+", "-", "."}
ForbiddenHostChars == {" ", "#", "/", ":", "<", ">", "?", "@", "[", "\\", "]", "^", "|", "%"}

InvalidURL == [ok |-> FALSE, protocol |-> <<>>, hostname |-> <<>>]

\* The smallest member of a non-empty set of positions.
Min(S) == CHOOSE i \in S : \A j \in S : i <= j
Max(S) == CHOOSE i \in S : \A j \in S : j <= i

\* The text before the first character of `stops`, and all of it when none occurs.
UpTo(s, stops) ==
    LET at == {i \in DOMAIN s : s[i] \in stops}
    IN  IF at = {} THEN s ELSE SubSeq(s, 1, Min(at) - 1)

\* Leading "/" and "\" dropped (special schemes ignore the number of slashes).
DropSlashes(s) ==
    LET keep == {i \in DOMAIN s : s[i] \notin {"/", "\\"}}
    IN  IF keep = {} THEN <<>> ELSE SubSeq(s, Min(keep), Len(s))

\* host[:port] -> the serialized hostname, or failure.
ParseHostPort(hostport, special) ==
    IF hostport # <<>> /\ hostport[1] = "["
    THEN \* an IPv6 literal: serialized WITH its brackets
         LET close == IndexOf(hostport, <<"]">>, 1)
             inner == SubSeq(hostport, 2, close - 1)
             rest  == Slice(hostport, close)
         IN  IF close = 0 \/ inner = <<>> \/ ":" \notin Range(inner)
                \/ ~(Range(inner) \subseteq HexChars \cup {":"})
             THEN InvalidURL
             ELSE IF rest # <<>> /\ (rest[1] # ":" \/ ~(Range(Slice(rest, 1)) \subseteq DigitChars))
             THEN InvalidURL
             ELSE [ok |-> TRUE, protocol |-> <<>>,
                   hostname |-> <<"[">> \o ToLower(inner) \o <<"]">>]
    ELSE LET host == UpTo(hostport, {":"})
             port == Slice(hostport, Len(host) + 1)
         IN  IF special /\ host = <<>> THEN InvalidURL
             ELSE IF Range(host) \cap ForbiddenHostChars # {} THEN InvalidURL
             ELSE IF ~(Range(port) \subseteq DigitChars) THEN InvalidURL
             ELSE [ok |-> TRUE, protocol |-> <<>>,
                   hostname |-> IF special THEN ToLower(host) ELSE host]

URLParse(rawUrl) ==
    LET input  == Trim(rawUrl)
        colon  == IndexOf(input, <<":">>, 1)
        scheme == ToLower(SubSeq(input, 1, colon - 1))
        after  == Slice(input, colon)
    IN  IF colon <= 1 \/ input[1] \notin Range(UpperChars) \cup Range(LowerChars)
           \/ ~(Range(scheme) \subseteq SchemeChars)
        THEN InvalidURL      \* no scheme and no base URL
        ELSE LET special   == scheme \in SpecialSchemes
                 authority == IF special THEN UpTo(DropSlashes(after), {"/", "\\", "?", "#"})
                              ELSE UpTo(Slice(after, 2), {"/", "?", "#"})
                 ats       == {i \in DOMAIN authority : authority[i] = "@"}
                 hostport  == IF ats = {} THEN authority ELSE Slice(authority, Max(ats))
                 parsed    == ParseHostPort(hostport, special /\ scheme # <<"f","i","l","e">>)
             IN  IF ~special /\ ~StartsWith(after, <<"/","/">>)
                 THEN [ok |-> TRUE, protocol |-> scheme \o <<":">>, hostname |-> <<>>]
                 ELSE IF ~parsed.ok THEN InvalidURL
                 ELSE [parsed EXCEPT !.protocol = scheme \o <<":">>]

\* The endpoints of the samples.
InsecureUrl  == <<"h","t","t","p",":","/","/","a","t","t","a","c","k","e","r",".","c","o","m","/","a","p","i","/","j","w","k","s">>
MalformedUrl == <<"n","o","t"," ","a"," ","u","r","l">>
TestUrl      == <<"h","t","t","p","s",":","/","/","l","o","c","a","l","h","o","s","t","/","a","p","i","/","j","w","k","s">>
DevUrl       == <<"h","t","t","p",":","/","/","l","o","c","a","l","h","o","s","t",":","3","0","0","0","/","a","p","i","/","j","w","k","s">>

SampleUrls ==
    {<<"h","t","t","p","s",":","/","/","a","g","e","n","t","i","d","a","p","p",".","v","e","r","c","e","l",".","a","p","p","/","a","p","i","/","j","w","k","s">>, TestUrl, DevUrl, InsecureUrl, MalformedUrl,
     <<>>, <<"h","t","t","p",":","/","/","1","2","7",".","0",".","0",".","1","/","k">>, <<"h","t","t","p",":","/","/","[",":",":","1","]","/","k">>, <<"h","t","t","p","s",":","/","/","[",":",":","1","]","/","k">>,
     <<"f","t","p",":","/","/","l","o","c","a","l","h","o","s","t","/","k">>, <<"f","t","p",":","/","/","e","x","a","m","p","l","e",".","o","r","g","/","k">>, <<"H","T","T","P",":","/","/","L","o","c","a","l","H","o","s","t","/","k">>,
     <<"h","t","t","p",":","/","/","l","o","c","a","l","h","o","s","t",".","e","v","i","l",".","o","r","g","/","k">>, <<"l","o","c","a","l","h","o","s","t",":","3","0","0","0","/","k">>, <<"h","t","t","p","s",":","/","/">>}

\* URLParse of the sample endpoints, computed once.
ParsedUrl == [u \in SampleUrls |-> URLParse(u)]

\* new URL(rawUrl)
NewURL(rawUrl) == IF rawUrl \in SampleUrls THEN ParsedUrl[rawUrl] ELSE URLParse(rawUrl)

(***************************************************************************)
(* verify.ts: the module-level JWKS cache.                                 *)
(* jwksSets maps a raw URL to the RemoteJWKSet made for it; a set is named *)
(* by the order in which it was made.                                      *)
(***************************************************************************)
DEFAULT_JWKS_URL == <<"h","t","t","p","s",":","/","/","a","g","e","n","t","i","d","a","p","p",".","v","e","r","c","e","l",".","a","p","p","/","a","p","i","/","j","w","k","s">>

NoError == [kind |-> "none", message |-> <<>>]
Failure(kind, message) == [kind |-> kind, message |-> message]

\* url.hostname === "localhost" || ... === "127.0.0.1" || ... === "::1"
isLocal(url) == url.hostname \in {<<"l","o","c","a","l","h","o","s","t">>, <<"1","2","7",".","0",".","0",".","1">>, <<":",":","1">>}

\* The body of `if (!jwksSets.has(rawUrl))`, given url = new URL(rawUrl): the
\* error thrown (or none), the cache afterwards and the RemoteJWKSet made (0
\* when it throws).
Admit(sets, rawUrl, url) ==
    IF ~url.ok
    THEN [err |-> Failure("MalformedEndpoint", <<"I","n","v","a","l","i","d"," ","U","R","L">>), sets |-> sets, handle |-> 0]
    ELSE IF url.protocol # <<"h","t","t","p","s",":">> /\ ~isLocal(url)
    THEN [err |-> Failure("InsecureEndpoint",
                          <<"[","a","g","e","n","t","-","i","d","]"," ","j","w","k","s","U","r","l"," ","m","u","s","t"," ","u","s","e"," ","H","T","T","P","S",","," ","r","e","c","e","i","v","e","d",":"," ">> \o rawUrl),
          sets |-> sets, handle |-> 0]
    ELSE [err |-> NoError,
          sets |-> Put(sets, rawUrl, Cardinality(DOMAIN sets) + 1),
          handle |-> Cardinality(DOMAIN sets) + 1]

\* A getJwks that makes a RemoteJWKSet on every call.
getJwksUncached(sets, rawUrl) == Admit(sets, rawUrl, NewURL(rawUrl))

\* getJwks(rawUrl) on the cache `sets`.
getJwks(sets, rawUrl) ==
    IF rawUrl \in DOMAIN sets
    THEN [err |-> NoError, sets |-> sets, handle |-> sets[rawUrl]]
    ELSE Admit(sets, rawUrl, NewURL(rawUrl))

(***************************************************************************)
(* JSON values and the sample tokens.                                      *)
(***************************************************************************)
Str(chars) == [t |-> "str", s |-> chars, n |-> 0]
Num(k)     == [t |-> "num", s |-> <<>>, n |-> k]
IsStr(v)   == v.t = "str"
IsNum(v)   == v.t = "num"

\* The order in which JSON.stringify writes the members of a claims object.
ClaimOrder == <<"iss", "sub", "iat", "nbf", "exp", "jti", "auth_method">>

\* A natural number in decimal, and back.
DigitSeq == <<"0","1","2","3","4","5","6","7","8","9">>

RECURSIVE Digits(_)
Digits(n) ==
    IF n < 10 THEN <<DigitSeq[n + 1]>>
    ELSE Digits(n \div 10) \o <<DigitSeq[(n % 10) + 1]>>

DigitValue(c) == (CHOOSE i \in DOMAIN DigitSeq : DigitSeq[i] = c) - 1

RECURSIVE ToNumber(_, _)
ToNumber(digits, acc) ==
    IF digits = <<>> THEN acc
    ELSE ToNumber(Tail(digits), 10 * acc + DigitValue(Head(digits)))

\* The strings of the samples hold no character that JSON escapes.
JSONValue(v) == IF IsStr(v) THEN <<"\"">> \o v.s \o <<"\"">> ELSE Digits(v.n)

RECURSIVE JSONMembers(_, _, _)
JSONMembers(obj, i, first) ==
    IF i > Len(ClaimOrder) THEN <<>>
    ELSE IF ClaimOrder[i] \notin DOMAIN obj THEN JSONMembers(obj, i + 1, first)
    ELSE (IF first THEN <<>> ELSE <<",">>)
         \o <<"\"", ClaimOrder[i], "\"", ":">> \o JSONValue(obj[ClaimOrder[i]])
         \o JSONMembers(obj, i + 1, FALSE)

\* JSON.stringify(claims)
JSONStringify(obj) == <<"{">> \o JSONMembers(obj, 1, TRUE) \o <<"}">>

\* JSON.parse of the text of an object whose members are strings and
\* natural numbers: the object, or a SyntaxError.  The name of a member is
\* one element of the text.
SyntaxError == [ok |-> FALSE, value |-> <<>>, next |-> 0]

\* The value that starts at position i and the position after it.
JSONValueAt(text, i) ==
    IF i > Len(text) THEN SyntaxError
    ELSE IF text[i] = "\""
    THEN LET close == IndexOf(text, <<"\"">>, i + 1)
         IN  IF close = 0 THEN SyntaxError
             ELSE [ok |-> TRUE, value |-> Str(SubSeq(text, i + 1, close - 1)),
                   next |-> close + 1]
    ELSE IF text[i] \in DigitChars
    THEN LET ends == {k \in i..Len(text) : text[k] \notin DigitChars}
             stop == IF ends = {} THEN Len(text) + 1 ELSE Min(ends)
         IN  [ok |-> TRUE, value |-> Num(ToNumber(SubSeq(text, i, stop - 1), 0)),
              next |-> stop]
    ELSE SyntaxError

\* The member "name":value at position i taken into obj, given its value.
RECURSIVE JSONMembersAt(_, _, _)
JSONMemberTaken(text, i, obj, v) ==
    IF ~v.ok \/ v.next > Len(text) THEN SyntaxError
    ELSE IF text[v.next] = "}"
    THEN IF v.next = Len(text)
         THEN [ok |-> TRUE, value |-> Put(obj, text[i + 1], v.value), next |-> v.next + 1]
         ELSE SyntaxError
    ELSE IF text[v.next] = ","
    THEN JSONMembersAt(text, v.next + 1, Put(obj, text[i + 1], v.value))
    ELSE SyntaxError

JSONMembersAt(text, i, obj) ==
    IF i + 3 > Len(text) \/ text[i] # "\"" \/ text[i + 2] # "\"" \/ text[i + 3] # ":"
    THEN SyntaxError
    ELSE JSONMemberTaken(text, i, obj, JSONValueAt(text, i + 4))

JSONParse(text) ==
    IF Len(text) < 2 \/ text[1] # "{" THEN SyntaxError
    ELSE IF text = <<"{", "}">> THEN [ok |-> TRUE, value |-> <<>>, next |-> 3]
    ELSE JSONMembersAt(text, 2, <<>>)

\* The clock of the samples, in seconds.
Now0 == 1000
ClockSpan == 1
Times == (Now0 - ClockSpan)..Now0

GoodPayload ==
    [iss |-> Str(<<"a","g","e","n","t","i","d">>), sub |-> Str(<<"a","b","c","1","2","3">>), iat |-> Num(Now0 - 100),
     exp |-> Num(Now0 + 3600), jti |-> Str(<<"j","1">>), auth_method |-> Str(<<"b","a","n","k","i","d">>)]

\* A compact JWS as jose decodes it: the number of dot-separated segments,
\* whether the protected header is base64url JSON, its alg and kid, the
\* private key that made the signature ("" for an empty signature), whether
\* the payload is a JSON object, and the payload.
Jws(alg, kid, signer, payload) ==
    [segments |-> 3, headerOk |-> TRUE, alg |-> alg, kid |-> kid, signer |-> signer,
     payloadOk |-> TRUE, payload |-> payload]

GoodJws == Jws("RS256", "test-key-1", "K1", GoodPayload)

Expiring(at) == [GoodJws EXCEPT !.payload = Put(GoodPayload, "exp", Num(at))]

JwtTable ==
    [good       |-> GoodJws,
     good2      |-> [GoodJws EXCEPT !.payload = Put(GoodPayload, "sub", Str(<<"x","y","z","7","8","9">>))],
     none       |-> Jws("none", "test-key-1", "", Put(GoodPayload, "sub", Str(<<"h","a","c","k","e","r">>))),
     hs256      |-> Jws("HS256", "test-key-1", "hmac", GoodPayload),
     noneBad    |-> Jws("none", "rotated", "", Put(GoodPayload, "exp", Num(Now0 - 500))),
     unknownKid |-> Jws("RS256", "rotated", "K1", GoodPayload),
     forged     |-> Jws("RS256", "test-key-1", "Kx", GoodPayload),
     forgedBad  |-> Jws("RS256", "test-key-1", "Kx",
                        Put(Put(GoodPayload, "iss", Str(<<"e","v","i","l",".","c","o","m">>)), "exp", Num(Now0 - 500))),
     notJson    |-> [GoodJws EXCEPT !.payloadOk = FALSE],
     evilIss    |-> [GoodJws EXCEPT !.payload = Put(GoodPayload, "iss", Str(<<"e","v","i","l",".","c","o","m">>))],
     evilOld    |-> [GoodJws EXCEPT !.payload =
                        Put(Put(GoodPayload, "iss", Str(<<"e","v","i","l",".","c","o","m">>)), "exp", Num(Now0 - 500))],
     noIss      |-> [GoodJws EXCEPT !.payload = Drop(GoodPayload, "iss")],
     notYet     |-> [GoodJws EXCEPT !.payload = Put(GoodPayload, "nbf", Num(Now0 + 500))],
     expA       |-> Expiring(Now0 - 31),
     expB       |-> Expiring(Now0 - 30),
     expC       |-> Expiring(Now0 - 1),
     expD       |-> Expiring(Now0),
     expOld     |-> Expiring(Now0 - 120),
     expText    |-> [GoodJws EXCEPT !.payload = Put(GoodPayload, "exp", Str(<<"s","o","o","n">>))],
     noExp      |-> [GoodJws EXCEPT !.payload = Drop(GoodPayload, "exp")],
     oldPass    |-> [GoodJws EXCEPT !.payload =
                        Put(Put(GoodPayload, "auth_method", Str(<<"p","a","s","s","w","o","r","d">>)), "exp", Num(Now0 - 500))],
     password   |-> [GoodJws EXCEPT !.payload = Put(GoodPayload, "auth_method", Str(<<"p","a","s","s","w","o","r","d">>))],
     noAuth     |-> [GoodJws EXCEPT !.payload = Drop(GoodPayload, "auth_method")],
     passNoSub  |-> [GoodJws EXCEPT !.payload =
                        Drop(Put(GoodPayload, "auth_method", Str(<<"p","a","s","s","w","o","r","d">>)), "sub")],
     emptySub   |-> [GoodJws EXCEPT !.payload = Put(GoodPayload, "sub", Str(<<>>))],
     noSub      |-> [GoodJws EXCEPT !.payload = Drop(GoodPayload, "sub")],
     numSub     |-> [GoodJws EXCEPT !.payload = Put(GoodPayload, "sub", Num(7))]]

\* Text that is no compact JWS of the table: split(".") and a header that
\* does not decode.
Decode(token) ==
    IF Len(token) = 1 /\ token[1] \in DOMAIN JwtTable
    THEN JwtTable[token[1]]
    ELSE [GoodJws EXCEPT !.segments = Cardinality({i \in DOMAIN token : token[i] = "."}) + 1,
                         !.headerOk = FALSE, !.payloadOk = FALSE, !.signer = ""]

\* The key set each endpoint publishes: kid -> the private key it belongs to.
RemoteKeys(rawUrl) ==
    IF NewURL(rawUrl).hostname = <<"a","t","t","a","c","k","e","r",".","c","o","m">>
    THEN [k \in {"test-key-1"} |-> "Kx"]
    ELSE [k \in {"test-key-1"} |-> "K1"]

(***************************************************************************)
(* verifyAgentIDToken: jose's jwtVerify with the options of the source     *)
(* (issuer "agentid", algorithms ["RS256"], clockTolerance), then the two  *)
(* runtime checks of the source.  Each step is a check that passes or      *)
(* throws; a run performs the steps of VerifySteps in order up to and      *)
(* including the first that throws.                                        *)
(***************************************************************************)
DEFAULT_CLOCK_TOLERANCE == 30

\* What jwtVerify is given besides the token.
Ctx(jws, url, fetch, now, tolerance) ==
    [jws |-> jws, url |-> url, fetch |-> fetch, now |-> now, tolerance |-> tolerance]

\* A verifier that checks the signature before it looks at alg.
VerifyStepsSignatureFirst ==
    <<"parse", "key", "signature", "alg", "payload", "iss", "iat", "nbf", "exp",
      "auth_method", "sub">>

\* The steps in the order the code performs them.  "parse" to "exp" are
\* jwtVerify (compact split and protected header, the algorithms option, the
\* key function, the signature, the payload as a JSON object, then the claims
\* iss, iat, nbf, exp); "auth_method" and "sub" are the source's own checks.
VerifySteps ==
    <<"parse", "alg", "key", "signature", "payload", "iss", "iat", "nbf", "exp",
      "auth_method", "sub">>

\* The text the source puts in the auth_method error for the claim's value.
Shown(payload) ==
    IF "auth_method" \notin DOMAIN payload THEN <<"u","n","d","e","f","i","n","e","d">>
    ELSE IF IsStr(payload.auth_method) THEN payload.auth_method.s
    ELSE <<ToString(payload.auth_method.n)>>

\* An expiry check that still accepts a token at exp = now - tolerance.
ExpiredStrictly(exp, now, tolerance) == exp < now - tolerance

\* jose's check of exp: if (payload.exp <= now - tolerance) throw JWTExpired.
Expired(exp, now, tolerance) == exp <= now - tolerance

\* Does the step pass?
StepOk(step, c) ==
    LET p == c.jws.payload
    IN  CASE step = "parse"     -> c.jws.segments = 3 /\ c.jws.headerOk
          [] step = "alg"       -> c.jws.alg \in {"RS256"}
          [] step = "key"       -> c.fetch # "fail" /\ c.jws.kid \in DOMAIN RemoteKeys(c.url)
          [] step = "signature" -> c.jws.signer = RemoteKeys(c.url)[c.jws.kid]
          [] step = "payload"   -> c.jws.payloadOk
          [] step = "iss"       -> "iss" \in DOMAIN p /\ p.iss = Str(<<"a","g","e","n","t","i","d">>)
          [] step = "iat"       -> "iat" \in DOMAIN p => IsNum(p.iat)
          [] step = "nbf"       -> "nbf" \in DOMAIN p =>
                                       IsNum(p.nbf) /\ ~(p.nbf.n > c.now + c.tolerance)
          [] step = "exp"       -> "exp" \in DOMAIN p =>
                                       IsNum(p.exp) /\ ~Expired(p.exp.n, c.now, c.tolerance)
          [] step = "auth_method" ->
                 "auth_method" \in DOMAIN p /\ p.auth_method = Str(<<"b","a","n","k","i","d">>)
          [] step = "sub"       -> "sub" \in DOMAIN p /\ IsStr(p.sub) /\ Len(p.sub.s) # 0

\* The error the step throws when it does not pass.
StepError(step, c) ==
    CASE step = "parse"     -> Failure("MalformedToken", <<"I","n","v","a","l","i","d"," ","C","o","m","p","a","c","t"," ","J","W","S">>)
      [] step = "alg"       -> Failure("AlgorithmRejected",
                                       <<"\"","a","l","g","\""," ","(","A","l","g","o","r","i","t","h","m",")"," ","H","e","a","d","e","r"," ","P","a","r","a","m","e","t","e","r"," ","v","a","l","u","e"," ","n","o","t"," ","a","l","l","o","w","e","d">>)
      [] step = "key"       -> IF c.fetch = "fail"
                               THEN Failure("NetworkFailure", <<"r","e","q","u","e","s","t"," ","t","i","m","e","d"," ","o","u","t">>)
                               ELSE Failure("UnknownKeyId",
                                            <<"n","o"," ","a","p","p","l","i","c","a","b","l","e"," ","k","e","y"," ","f","o","u","n","d"," ","i","n"," ","t","h","e"," ","J","S","O","N"," ","W","e","b"," ","K","e","y"," ","S","e","t">>)
      [] step = "signature" -> Failure("SignatureInvalid", <<"s","i","g","n","a","t","u","r","e"," ","v","e","r","i","f","i","c","a","t","i","o","n"," ","f","a","i","l","e","d">>)
      [] step = "payload"   -> Failure("MalformedToken", <<"J","W","T"," ","C","l","a","i","m","s"," ","S","e","t"," ","m","u","s","t"," ","b","e"," ","a"," ","t","o","p","-","l","e","v","e","l"," ","J","S","O","N"," ","o","b","j","e","c","t">>)
      [] step = "iss"       -> Failure("IssuerMismatch", <<"u","n","e","x","p","e","c","t","e","d"," ","\"","i","s","s","\""," ","c","l","a","i","m"," ","v","a","l","u","e">>)
      [] step = "iat"       -> Failure("MalformedToken", <<"\"","i","a","t","\""," ","c","l","a","i","m"," ","m","u","s","t"," ","b","e"," ","a"," ","n","u","m","b","e","r">>)
      [] step = "nbf"       -> Failure("NotYetValid", <<"\"","n","b","f","\""," ","c","l","a","i","m"," ","t","i","m","e","s","t","a","m","p"," ","c","h","e","c","k"," ","f","a","i","l","e","d">>)
      [] step = "exp"       -> IF IsNum(c.jws.payload.exp)
                               THEN Failure("TokenExpired", <<"\"","e","x","p","\""," ","c","l","a","i","m"," ","t","i","m","e","s","t","a","m","p"," ","c","h","e","c","k"," ","f","a","i","l","e","d">>)
                               ELSE Failure("MalformedToken", <<"\"","e","x","p","\""," ","c","l","a","i","m"," ","m","u","s","t"," ","b","e"," ","a"," ","n","u","m","b","e","r">>)
      [] step = "auth_method" ->
             Failure("InvalidAuthMethod",
                     <<"[","a","g","e","n","t","-","i","d","]"," ","J","W","T"," ","h","a","s"," ","i","n","v","a","l","i","d"," ","a","u","t","h","_","m","e","t","h","o","d",":"," ","e","x","p","e","c","t","e","d"," ","\"","b","a","n","k","i","d","\"",","," ","g","o","t"," ","\"">>
                     \o Shown(c.jws.payload) \o <<"\"">>)
      [] step = "sub"       -> Failure("MissingSubject", <<"[","a","g","e","n","t","-","i","d","]"," ","J","W","T"," ","i","s"," ","m","i","s","s","i","n","g"," ","t","h","e"," ","s","u","b"," ","c","l","a","i","m">>)

\* Steps[from..to] run on c after `done`: the steps performed and the error thrown.
RECURSIVE RunSteps(_, _, _, _)
RunSteps(c, from, to, done) ==
    IF from > to THEN [steps |-> done, err |-> NoError]
    ELSE IF StepOk(VerifySteps[from], c)
         THEN RunSteps(c, from + 1, to, Append(done, VerifySteps[from]))
         ELSE [steps |-> Append(done, VerifySteps[from]), err |-> StepError(VerifySteps[from], c)]

\* The position of the one step that waits for the network.
KeyStep == CHOOSE i \in DOMAIN VerifySteps : VerifySteps[i] = "key"

\* options.jwksUrl ?? DEFAULT_JWKS_URL and options.clockTolerance ?? 30;
\* options is a function on the option names that are given.
JwksUrlOf(options) ==
    IF "jwksUrl" \in DOMAIN options THEN options.jwksUrl ELSE DEFAULT_JWKS_URL
ToleranceOf(options) ==
    IF "clockTolerance" \in DOMAIN options THEN options.clockTolerance
    ELSE DEFAULT_CLOCK_TOLERANCE

\* verifyAgentIDToken up to the point where jwtVerify waits for the key,
\* given got = getJwks(jwksUrl): a throw of getJwks, or the steps before the
\* key function.  A result with an error is the rejection of the returned
\* promise.
Started(got, run) ==
    IF got.err # NoError
    THEN [steps |-> <<"getJwks">>, err |-> got.err, sets |-> got.sets, handle |-> 0]
    ELSE [steps |-> run.steps, err |-> run.err, sets |-> got.sets, handle |-> got.handle]

verifyStart(token, options, sets) ==
    Started(getJwks(sets, JwksUrlOf(options)),
            RunSteps(Ctx(Decode(token), JwksUrlOf(options), "none", 0, ToleranceOf(options)),
                     1, KeyStep - 1, <<"getJwks">>))

\* The rest of verifyAgentIDToken once the key function has answered: `fetch`
\* is "none" (key material cached), "ok" or "fail"; `now` is the clock read by
\* the claims check.  The claims returned are the payload.
Finished(jws, run) ==
    [steps |-> run.steps, err |-> run.err,
     claims |-> IF run.err = NoError THEN jws.payload ELSE <<>>]

verifyFinish(token, options, fetch, now, started) ==
    Finished(Decode(token),
             RunSteps(Ctx(Decode(token), JwksUrlOf(options), fetch, now, ToleranceOf(options)),
                      KeyStep, Len(VerifySteps), started))

(***************************************************************************)
(* middleware.ts                                                           *)
(***************************************************************************)
MANAGED_HEADERS == <<"x-agentid-verified", "x-agentid-sub", "x-agentid-claims">>

DEFAULT_BLOCK == TRUE
MIDDLEWARE_CLOCK_TOLERANCE == 30

NO_TOKEN_MESSAGE ==
    <<"A","g","e","n","t"," ","r","e","q","u","e","s","t"," ","m","i","s","s","i","n","g"," ","A","g","e","n","t","I","D"," ","t","o","k","e","n","."," ","P","r","o","v","i","d","e"," ","\"","A","u","t","h","o","r","i","z","a","t","i","o","n",":"," ","B","e","a","r","e","r"," ","<","t","o","k","e","n",">","\"",".">>
INVALID_TOKEN_MESSAGE == <<"I","n","v","a","l","i","d"," ","o","r"," ","e","x","p","i","r","e","d"," ","A","g","e","n","t","I","D"," ","t","o","k","e","n",".">>

\* The `const { ... } = options` of createAgentIDMiddleware: options is a
\* function on the option names that are given.
createAgentIDMiddleware(options) ==
    [jwksUrl |-> IF "jwksUrl" \in DOMAIN options THEN options.jwksUrl ELSE <<"\\undefined">>,
     blockUnauthorizedAgents |->
        IF "blockUnauthorizedAgents" \in DOMAIN options THEN options.blockUnauthorizedAgents
        ELSE DEFAULT_BLOCK,
     clockTolerance |->
        IF "clockTolerance" \in DOMAIN options THEN options.clockTolerance
        ELSE MIDDLEWARE_CLOCK_TOLERANCE,
     onUnauthorizedAgent |->
        IF "onUnauthorizedAgent" \in DOMAIN options THEN options.onUnauthorizedAgent
        ELSE "undefined"]

\* { ...(jwksUrl !== undefined && { jwksUrl }), clockTolerance }
VerifyOptionsOf(cfg) ==
    IF cfg.jwksUrl # <<"\\undefined">>
    THEN [jwksUrl |-> cfg.jwksUrl, clockTolerance |-> cfg.clockTolerance]
    ELSE [clockTolerance |-> cfg.clockTolerance]

\* Responses.
NoResponse == [kind |-> "none", status |-> 0, error |-> "", message |-> <<>>, headers |-> <<>>]
\* A proxy that marks whatever it forwards as unverified.
NextMarked(headers) ==
    [NoResponse EXCEPT !.kind = "next", !.status = 200,
                       !.headers = Put(headers, "x-agentid-verified", <<"f","a","l","s","e">>)]

\* NextResponse.next({ request: { headers } })
NextWith(headers) == [NoResponse EXCEPT !.kind = "next", !.status = 200, !.headers = headers]
\* NextResponse.json({ error, message }, { status })
Json(error, message, status) ==
    [NoResponse EXCEPT !.kind = "json", !.status = status, !.error = error, !.message = message]

\* The caller's callback: "void" returns nothing, "respond" returns a response
\* of its own that repeats the reason it was given.
CallbackResult(callback, request, reason) ==
    IF callback = "respond"
    THEN [NoResponse EXCEPT !.kind = "custom", !.status = 401, !.error = "CUSTOM",
                            !.message = reason]
    ELSE NoResponse

\* A proxy that forgets to strip the reserved headers.
StripNothing(headers, i) == headers

\* for (const name of MANAGED_HEADERS) requestHeaders.delete(name)
RECURSIVE StripManaged(_, _)
StripManaged(headers, i) ==
    IF i > Len(MANAGED_HEADERS) THEN headers
    ELSE StripManaged(DeleteHeader(headers, MANAGED_HEADERS[i]), i + 1)

\* An unauthorized() that looks at blockUnauthorizedAgents before it asks
\* the callback.
unauthorizedBlockFirst(request, requestHeaders, message, block, onUnauthorized) ==
    LET called == onUnauthorized # "undefined"
        custom == CallbackResult(onUnauthorized, request, message)
    IN  IF block
        THEN [response |-> Json("AGENT_UNAUTHORIZED", message, 403), calls |-> <<>>]
        ELSE IF called /\ custom # NoResponse
        THEN [response |-> custom, calls |-> <<message>>]
        ELSE [response |-> NextWith(SetHeader(requestHeaders, "x-agentid-verified", <<"f","a","l","s","e">>)),
              calls |-> IF called THEN <<message>> ELSE <<>>]

\* An unauthorized() that forwards without the "not verified" marker.
unauthorizedUnmarked(request, requestHeaders, message, block, onUnauthorized) ==
    LET called == onUnauthorized # "undefined"
        custom == CallbackResult(onUnauthorized, request, message)
        calls  == IF called THEN <<message>> ELSE <<>>
    IN  IF called /\ custom # NoResponse
        THEN [response |-> custom, calls |-> calls]
        ELSE IF block
        THEN [response |-> Json("AGENT_UNAUTHORIZED", message, 403), calls |-> calls]
        ELSE [response |-> NextWith(requestHeaders), calls |-> calls]

\* unauthorized(request, requestHeaders, message, block, onUnauthorized):
\* the response, and the reasons the callback was called with.
unauthorized(request, requestHeaders, message, block, onUnauthorized) ==
    LET called == onUnauthorized # "undefined"
        custom == CallbackResult(onUnauthorized, request, message)
        calls  == IF called THEN <<message>> ELSE <<>>
    IN  IF called /\ custom # NoResponse
        THEN [response |-> custom, calls |-> calls]
        ELSE IF block
        THEN [response |-> Json("AGENT_UNAUTHORIZED", message, 403), calls |-> calls]
        ELSE [response |-> NextWith(SetHeader(requestHeaders, "x-agentid-verified", <<"f","a","l","s","e">>)),
              calls |-> calls]

\* The verified branch: the three headers set from the claims.
Inject(requestHeaders, claims) ==
    SetHeader(
        SetHeader(
            SetHeader(requestHeaders, "x-agentid-verified", <<"t","r","u","e">>),
            "x-agentid-sub", claims.sub.s),
        "x-agentid-claims", JSONStringify(claims))

(***************************************************************************)
(* getAgentIDResult(request): what a route handler behind the proxy reads  *)
(* from the headers of the request it is given.                            *)
(***************************************************************************)
NoResult == [verified |-> FALSE, reason |-> "", claims |-> <<>>]

Unverified(reason) == [NoResult EXCEPT !.reason = reason]

\* JSON.parse for the claims of the sample tokens, computed once.
ParsedClaims ==
    [text \in {JSONStringify(JwtTable[k].payload) : k \in DOMAIN JwtTable} |-> JSONParse(text)]

\* try { return { verified: true, claims: JSON.parse(claimsJson) } } catch { ... }
ResultOfParse(parsed) ==
    IF parsed.ok THEN [verified |-> TRUE, reason |-> "", claims |-> parsed.value]
    ELSE Unverified("invalid_token")

getAgentIDResult(headers) ==
    IF ~(HasHeader(headers, "x-agentid-verified")
           /\ headers["x-agentid-verified"] = <<"t","r","u","e">>)
    THEN Unverified(IF HasHeader(headers, "x-agentid-verified")
                        /\ headers["x-agentid-verified"] = <<"f","a","l","s","e">>
                    THEN "no_token" ELSE "not_agent")
    ELSE IF GetOrEmpty(headers, "x-agentid-claims") = <<>>
    THEN Unverified("invalid_token")
    ELSE IF headers["x-agentid-claims"] \in DOMAIN ParsedClaims
    THEN ResultOfParse(ParsedClaims[headers["x-agentid-claims"]])
    ELSE ResultOfParse(JSONParse(headers["x-agentid-claims"]))

(***************************************************************************)
(* Sample inputs.                                                          *)
(***************************************************************************)
BrowserUA == <<"M","o","z","i","l","l","a","/","5",".","0"," ","(","X","1","1",")"," ","F","i","r","e","f","o","x","/","1">>
CurlUA    == <<"c","u","r","l","/","7",".","8","8",".","1">>

Bearer(jwt) == <<"B","e","a","r","e","r"," ">> \o <<jwt>>

H1(n1, v1) == [n \in {n1} |-> v1]
H2(n1, v1, n2, v2) == Put(H1(n1, v1), n2, v2)

\* The three reserved headers as a client may forge them.
Spoofed(headers) ==
    Put(Put(Put(headers, "x-agentid-verified", <<"t","r","u","e">>),
            "x-agentid-sub", <<"v","i","c","t","i","m">>),
        "x-agentid-claims", JSONStringify(Put(GoodPayload, "sub", Str(<<"v","i","c","t","i","m">>))))

\* Tokens sent through the proxy.
GateTokens ==
    {"good", "good2", "none", "unknownKid", "forged", "evilIss", "expB", "expOld",
     "noExp", "password", "emptySub"}

GateRequests ==
    LET human == H2("user-agent", BrowserUA, "accept-language", <<"e","n","-","U","S">>)
        agent == H1("user-agent", CurlUA)
    IN  {human, Spoofed(human), Put(human, "authorization", Bearer("good"))}
        \cup {agent, Spoofed(agent), <<>>, H1("user-agent", <<"M","y","A","p","p","/","1",".","0">>),
              Put(agent, "authorization", <<"B","a","s","i","c"," ","d","X","N","l","c","g","=","=">>),
              Put(agent, "authorization", <<"B","e","a","r","e","r"," ","n","o","t",".","a",".","j","w","t">>),
              Put(agent, "x-agentid-token", <<" ", "good2", " ">>)}
        \cup {Put(agent, "authorization", Bearer(t)) : t \in GateTokens}
        \cup {Spoofed(Put(agent, "authorization", Bearer(t))) : t \in {"good2", "forged"}}

\* Requests and calls whose tokens differ in exp alone.
ExpiryTokens == {"expA", "expB", "expC", "expD", "noExp"}

ExpiryRequests ==
    {Put(H1("user-agent", CurlUA), "authorization", Bearer(t)) : t \in ExpiryTokens}

ExpiryInputs ==
    {[token |-> <<t>>, options |-> o] :
        t \in ExpiryTokens, o \in {<<>>, [clockTolerance |-> 0]}}

GateOptions ==
    {<<>>,
     [blockUnauthorizedAgents |-> FALSE],
     [onUnauthorizedAgent |-> "void"],
     [onUnauthorizedAgent |-> "respond"],
     [onUnauthorizedAgent |-> "void", blockUnauthorizedAgents |-> FALSE],
     [onUnauthorizedAgent |-> "respond", blockUnauthorizedAgents |-> FALSE],
     [clockTolerance |-> 0, jwksUrl |-> TestUrl],
     [jwksUrl |-> DevUrl, blockUnauthorizedAgents |-> FALSE],
     [jwksUrl |-> InsecureUrl],
     [jwksUrl |-> InsecureUrl, blockUnauthorizedAgents |-> FALSE],
     [jwksUrl |-> MalformedUrl],
     [jwksUrl |-> MalformedUrl, onUnauthorizedAgent |-> "void"]}

\* Requests and calls that differ in the endpoint alone.
CacheRequests == {Put(H1("user-agent", CurlUA), "authorization", Bearer("good"))}

CacheOptions == {<<>>, [jwksUrl |-> DevUrl], [jwksUrl |-> InsecureUrl]}

CacheInputs == {[token |-> <<"good">>, options |-> [jwksUrl |-> u]] : u \in SampleUrls}

\* The synchronous head of the handler for each sample request, computed
\* once: the sanitized clone of the headers, the classification and the token.
Handled ==
    [request \in GateRequests \cup ExpiryRequests |->
        LET requestHeaders == StripManaged(request, 1)
        IN  [requestHeaders |-> requestHeaders,
             agent |-> isAgentRequest(requestHeaders),
             token |-> extractToken(requestHeaders)]]

\* User-Agent strings, each with what a reader of the pattern list finds in
\* it: one of the automation signatures, the browser marker.
UASample(ua, signature, browser) == [ua |-> ua, signature |-> signature, browser |-> browser]

UASamples ==
    {UASample(BrowserUA, FALSE, TRUE),
     UASample(CurlUA, TRUE, FALSE),
     UASample(<<"M","y","C","u","s","t","o","m","A","g","e","n","t","/","1",".","0">>, FALSE, FALSE),
     UASample(<<"G","P","T","B","o","t","/","1",".","0">>, TRUE, FALSE),
     UASample(<<"M","o","z","i","l","l","a","/","5",".","0"," ","(","c","o","m","p","a","t","i","b","l","e",";"," ","G","o","o","g","l","e","b","o","t","/","2",".","1",")">>, TRUE, TRUE),
     UASample(<<"M","o","z","i","l","l","a","/","5",".","0"," ","P","Y","T","H","O","N","-","R","E","Q","U","E","S","T","S","/","2">>, TRUE, TRUE),
     UASample(<<"a","x","i","o","s","/","1",".","6",".","2">>, TRUE, FALSE),
     UASample(<<"g","o","t","/","1","1",".","8">>, TRUE, FALSE),
     UASample(<<"f","o","r","g","o","t","/","1",".","0">>, FALSE, FALSE),
     UASample(<<"g","o","t"," ","1","1">>, FALSE, FALSE),
     UASample(<<"r","o","b","o","t","/","1",".","0">>, FALSE, FALSE),
     UASample(<<"m","y"," ","b","o","t">>, TRUE, FALSE),
     UASample(<<"b","o","t","_","r","u","n","n","e","r">>, FALSE, FALSE),
     UASample(<<"C","U","R","L","/","8">>, TRUE, FALSE),
     UASample(<<"c","u","r","l","y","/","1",".","0">>, FALSE, FALSE),
     UASample(<<"m","o","z","i","l","l","a","/","5",".","0"," ","(","x",")">>, FALSE, TRUE),
     UASample(<<"M","o","z","i","l","l","a","/","4",".","0"," ","(","x",")">>, FALSE, FALSE),
     UASample(<<"x">>, FALSE, FALSE)}

\* Header sets given to isAgentRequest: User-Agent and Accept-Language
\* absent, empty or set, next to headers the classifier has no use for.
DetectHeaders ==
    LET uas   == {<<>>, H1("user-agent", <<>>)}
                   \cup {H1("user-agent", u.ua) : u \in UASamples}
        langs == {<<>>, H1("accept-language", <<>>), H1("accept-language", <<"e","n">>)}
        rest  == {<<>>, H1("authorization", Bearer("good")),
                  H1("x-agentid-verified", <<"t","r","u","e">>)}
    IN  {[n \in DOMAIN a \cup DOMAIN b \cup DOMAIN c |->
            IF n \in DOMAIN a THEN a[n] ELSE IF n \in DOMAIN b THEN b[n] ELSE c[n]] :
         a \in uas, b \in langs, c \in rest}

\* Values of Authorization and of x-agentid-token, each with the token a
\* reader takes from it (Null for none).
TokenSample(value, token) == [value |-> value, token |-> token]

AuthorizationSamples ==
    {TokenSample(<<>>, Null),
     TokenSample(<<"B","e","a","r","e","r"," ","a","b","c",".","d","e","f",".","g","h","i">>, <<"a","b","c",".","d","e","f",".","g","h","i">>),
     TokenSample(<<"B","e","a","r","e","r"," ","p","r","i","m","a","r","y","-","t","o","k","e","n">>, <<"p","r","i","m","a","r","y","-","t","o","k","e","n">>),
     TokenSample(<<"B","e","a","r","e","r"," ">>, Null),
     TokenSample(<<"B","e","a","r","e","r"," "," "," "," ">>, Null),
     TokenSample(<<"B","e","a","r","e","r"," "," "," ","t","o","k"," "," ">>, <<"t","o","k">>),
     TokenSample(<<"B","e","a","r","e","r"," ","a"," ","b">>, <<"a"," ","b">>),
     TokenSample(<<"B","e","a","r","e","r">>, Null),
     TokenSample(<<"B","e","a","r","e","r","a","b","c">>, Null),
     TokenSample(<<"b","e","a","r","e","r"," ","a","b","c">>, Null),
     TokenSample(<<"B","E","A","R","E","R"," ","a","b","c">>, Null),
     TokenSample(<<" ","B","e","a","r","e","r"," ","a","b","c">>, Null),
     TokenSample(<<"B","a","s","i","c"," ","d","X","N","l","c","j","p","w","Y","X","N","z">>, Null)}

FallbackSamples ==
    {TokenSample(<<>>, Null),
     TokenSample(<<" "," "," ">>, Null),
     TokenSample(<<"f","a","l","l","b","a","c","k","-","t","o","k","e","n">>, <<"f","a","l","l","b","a","c","k","-","t","o","k","e","n">>),
     TokenSample(<<" "," ","m","y",".","t","o","k","e","n",".","h","e","r","e"," "," ">>, <<"m","y",".","t","o","k","e","n",".","h","e","r","e">>),
     TokenSample(<<"B","e","a","r","e","r"," ","x">>, <<"B","e","a","r","e","r"," ","x">>)}

\* Header sets given to extractToken: each of the two headers absent or
\* set to a sample, with or without a User-Agent.
ExtractHeaders ==
    LET auths == {<<>>} \cup {H1("authorization", a.value) : a \in AuthorizationSamples}
        falls == {<<>>} \cup {H1("x-agentid-token", f.value) : f \in FallbackSamples}
        rest  == {<<>>, H1("user-agent", CurlUA)}
    IN  {[n \in DOMAIN a \cup DOMAIN b \cup DOMAIN c |->
            IF n \in DOMAIN a THEN a[n] ELSE IF n \in DOMAIN b THEN b[n] ELSE c[n]] :
         a \in auths, b \in falls, c \in rest}

\* extractToken for each sample, computed once.
Extracted == [headers \in ExtractHeaders |-> extractToken(headers)]

\* isAgentRequest for each sample, computed once.
Detected == [headers \in DetectHeaders |-> isAgentRequest(headers)]

(***************************************************************************)
(* State.                                                                  *)
(***************************************************************************)
VARIABLES
    config,     \* the options the proxy was created with, defaults applied
    jwksSets,   \* the module-level cache: raw URL -> RemoteJWKSet
    fresh,      \* the RemoteJWKSets that hold fetched key material not yet stale
    gate,       \* per request in the proxy: where it is and its locals
    call,       \* per direct caller of verifyAgentIDToken: where it is and its locals
    probe       \* per direct caller of isAgentRequest / extractToken: its call and result

vars == <<config, jwksSets, fresh, gate, call, probe>>

\* How many requests the proxy handles at once.
NRequests == 2
Requests == 1..NRequests

\* How many callers use verifyAgentIDToken directly at once.
NCallers == 1
Callers == 1..NCallers

\* What a request or a caller knows of its verification: the steps performed,
\* the error thrown, the claims returned, the clock read and whether the
\* fetch of the key set failed.
NoVerify ==
    [steps |-> <<>>, err |-> NoError, claims |-> <<>>, now |-> 0, fetchFailed |-> FALSE]

IdleGate ==
    [pc |-> "idle", request |-> <<>>, requestHeaders |-> <<>>, token |-> Null,
     trace |-> <<>>, verify |-> NoVerify, calls |-> <<>>, response |-> NoResponse,
     result |-> NoResult]

\* How many callers use the functions of detect.ts directly at once.
NProbes == 2
Probes == 1..NProbes

IdleProbe == [pc |-> "idle", op |-> "none", headers |-> <<>>, agent |-> FALSE, token |-> Null]

IdleCall ==
    [pc |-> "idle", token |-> Null, options |-> <<>>, verify |-> NoVerify, handle |-> 0]

Init ==
    /\ config \in {createAgentIDMiddleware(o) : o \in GateOptions}
    /\ jwksSets = <<>>
    /\ fresh = {}
    /\ gate = [r \in Requests |-> IdleGate]
    /\ call = [c \in Callers |-> IdleCall]
    /\ probe = [p \in Probes |-> IdleProbe]

(***************************************************************************)
(* The key function of a RemoteJWKSet (jose): it fetches when it holds no   *)
(* fresh key material, and may fetch again when the kid is not in it.       *)
(***************************************************************************)
FetchOutcomes(rawUrl, jws) ==
    LET isFresh == jwksSets[rawUrl] \in fresh
        known   == jws.kid \in DOMAIN RemoteKeys(rawUrl)
    IN  (IF isFresh THEN {"none"} ELSE {})
        \cup (IF ~isFresh \/ ~known THEN {"ok", "fail"} ELSE {})

AfterFetch(rawUrl, fetch) ==
    IF fetch = "ok" THEN fresh \cup {jwksSets[rawUrl]} ELSE fresh

\* cacheMaxAge elapses for a RemoteJWKSet.
Expire ==
    /\ \E h \in fresh : fresh' = fresh \ {h}
    /\ UNCHANGED <<config, jwksSets, gate, call, probe>>

(***************************************************************************)
(* agentIDMiddleware(request)                                              *)
(***************************************************************************)
\* The end of a request on the unauthorized path.
Unauthorized(g, message) ==
    LET u == unauthorized(g.request, g.requestHeaders, message,
                          config.blockUnauthorizedAgents, config.onUnauthorizedAgent)
    IN  [g EXCEPT !.pc = "done", !.response = u.response, !.calls = u.calls,
                  !.trace = g.trace \o <<"unauthorized">>]

\* A catch clause that handles the errors of the token and lets a failure of
\* the network through.
CatchesTokenErrors(err) == err.kind # "NetworkFailure"

\* try { claims = await verifyAgentIDToken(...) } catch (err) { ... }: the
\* errors the catch clause handles.
Catches(err) == TRUE

\* The end of a request whose verification failed: the unauthorized path when
\* the error is caught, and the rejection of the handler's promise when not.
Failed(g, err) ==
    IF Catches(err) THEN Unauthorized(g, INVALID_TOKEN_MESSAGE)
    ELSE [g EXCEPT !.pc = "done", !.trace = g.trace \o <<"throw">>,
                   !.response = [NoResponse EXCEPT !.kind = "throw", !.message = err.message]]

\* From the arrival of a request to its response, or to the point where
\* jwtVerify waits for the key.  (A value is bound by \E over a one-element
\* set where the code binds a local.)
GateBeginOf(r, requests) ==
    /\ gate[r].pc = "idle"
    /\ \E request \in requests :
       \E h \in {Handled[request]} :
       \E g0 \in {[IdleGate EXCEPT !.request = request,
                                   !.requestHeaders = h.requestHeaders,
                                   !.trace = <<"strip", "classify">>]} :
         IF ~h.agent
         THEN /\ gate' = [gate EXCEPT ![r] =
                            [g0 EXCEPT !.pc = "done", !.response = NextWith(h.requestHeaders)]]
              /\ UNCHANGED jwksSets
         ELSE \E g1 \in {[g0 EXCEPT !.token = h.token, !.trace = g0.trace \o <<"extract">>]} :
              IF h.token = Null
              THEN /\ gate' = [gate EXCEPT ![r] = Unauthorized(g1, NO_TOKEN_MESSAGE)]
                   /\ UNCHANGED jwksSets
              ELSE \E vs \in {verifyStart(h.token, VerifyOptionsOf(config), jwksSets)} :
                   \E g2 \in {[g1 EXCEPT !.trace = g1.trace \o <<"verify">>,
                                         !.verify = [NoVerify EXCEPT !.steps = vs.steps,
                                                                     !.err = vs.err]]} :
                     /\ jwksSets' = vs.sets
                     /\ gate' = [gate EXCEPT ![r] =
                                   IF vs.err # NoError
                                   THEN Failed(g2, vs.err)
                                   ELSE [g2 EXCEPT !.pc = "verifying"]]
    /\ UNCHANGED <<config, fresh, call, probe>>

GateBegin(r) == GateBeginOf(r, GateRequests)

\* The key function answers and the rest of the request runs.
GateResume(r) ==
    /\ gate[r].pc = "verifying"
    /\ \E g \in {gate[r]}, opt \in {VerifyOptionsOf(config)} :
       \E fetch \in FetchOutcomes(JwksUrlOf(opt), Decode(g.token)), now \in Times :
       \E vf \in {verifyFinish(g.token, opt, fetch, now, g.verify.steps)} :
       \E g1 \in {[g EXCEPT !.verify = [steps |-> vf.steps, err |-> vf.err,
                                        claims |-> vf.claims, now |-> now,
                                        fetchFailed |-> fetch = "fail"]]} :
         /\ fresh' = AfterFetch(JwksUrlOf(opt), fetch)
         /\ gate' = [gate EXCEPT ![r] =
                       IF vf.err # NoError
                       THEN Failed(g1, vf.err)
                       ELSE [g1 EXCEPT !.pc = "done",
                                       !.trace = g1.trace \o <<"inject">>,
                                       !.response =
                                          NextWith(Inject(g.requestHeaders, vf.claims))]]
    /\ UNCHANGED <<config, jwksSets, call, probe>>

\* The request the proxy forwarded reaches its route handler, which calls
\* getAgentIDResult on it.
Downstream(r) ==
    /\ gate[r].pc = "done"
    /\ gate[r].response.kind = "next"
    /\ gate' = [gate EXCEPT ![r] =
                  [@ EXCEPT !.pc = "handled",
                            !.result = getAgentIDResult(gate[r].response.headers)]]
    /\ UNCHANGED <<config, jwksSets, fresh, call, probe>>

\* The response is sent; the next request may arrive.
GateReturn(r) ==
    /\ gate[r].pc \in {"done", "handled"}
    /\ gate' = [gate EXCEPT ![r] = IdleGate]
    /\ UNCHANGED <<config, jwksSets, fresh, call, probe>>

(***************************************************************************)
(* verifyAgentIDToken(token, options) called directly.                     *)
(***************************************************************************)
\* The cache is never emptied; the samples stop adding endpoints at MaxSets.
MaxSets == 2

CallInputs ==
    {[token |-> <<t>>, options |-> [jwksUrl |-> TestUrl]] : t \in DOMAIN JwtTable}
    \cup {[token |-> <<t>>, options |-> [jwksUrl |-> TestUrl, clockTolerance |-> 0]] :
             t \in DOMAIN JwtTable}
    \cup {[token |-> t, options |-> [jwksUrl |-> TestUrl]] : t \in {<<>>, <<"n","o","t",".","a",".","j","w","t">>}}
    \cup {[token |-> <<t>>, options |-> [jwksUrl |-> u]] : t \in {"good", "none"}, u \in SampleUrls}
    \cup {[token |-> <<t>>, options |-> <<>>] : t \in {"good", "expB"}}

\* From the call to the rejection of the promise, or to the point where
\* jwtVerify waits for the key.
CallBeginOf(c, inputs) ==
    /\ call[c].pc = "idle"
    /\ \E in \in inputs :
       \E vs \in {verifyStart(in.token, in.options, jwksSets)} :
         /\ Cardinality(DOMAIN vs.sets) <= MaxSets
         /\ jwksSets' = vs.sets
         /\ call' = [call EXCEPT ![c] =
                       [pc |-> IF vs.err # NoError THEN "done" ELSE "verifying",
                        token |-> in.token, options |-> in.options,
                        verify |-> [NoVerify EXCEPT !.steps = vs.steps, !.err = vs.err],
                        handle |-> vs.handle]]
    /\ UNCHANGED <<config, fresh, gate, probe>>

CallBegin(c) == CallBeginOf(c, CallInputs)

\* The key function answers and the promise settles.
CallResume(c) ==
    /\ call[c].pc = "verifying"
    /\ \E k \in {call[c]} :
       \E fetch \in FetchOutcomes(JwksUrlOf(k.options), Decode(k.token)), now \in Times :
       \E vf \in {verifyFinish(k.token, k.options, fetch, now, k.verify.steps)} :
         /\ fresh' = AfterFetch(JwksUrlOf(k.options), fetch)
         /\ call' = [call EXCEPT ![c] =
                       [k EXCEPT !.pc = "done",
                                 !.verify = [steps |-> vf.steps, err |-> vf.err,
                                             claims |-> vf.claims, now |-> now,
                                             fetchFailed |-> fetch = "fail"]]]
    /\ UNCHANGED <<config, jwksSets, gate, probe>>

\* The caller has the result and may call again.
CallReturn(c) ==
    /\ call[c].pc = "done"
    /\ call' = [call EXCEPT ![c] = IdleCall]
    /\ UNCHANGED <<config, jwksSets, fresh, gate, probe>>

(***************************************************************************)
(* isAgentRequest(headers) and extractToken(headers) called directly.      *)
(***************************************************************************)
Classify(p) ==
    /\ probe[p].pc = "idle"
    /\ \E headers \in DetectHeaders :
         probe' = [probe EXCEPT ![p] =
                      [IdleProbe EXCEPT !.pc = "done", !.op = "isAgentRequest",
                                        !.headers = headers, !.agent = Detected[headers]]]
    /\ UNCHANGED <<config, jwksSets, fresh, gate, call>>

Extract(p) ==
    /\ probe[p].pc = "idle"
    /\ \E headers \in ExtractHeaders :
         probe' = [probe EXCEPT ![p] =
                      [IdleProbe EXCEPT !.pc = "done", !.op = "extractToken",
                                        !.headers = headers, !.token = Extracted[headers]]]
    /\ UNCHANGED <<config, jwksSets, fresh, gate, call>>

\* The caller has the result and may call again.
ProbeReturn(p) ==
    /\ probe[p].pc = "done"
    /\ probe' = [probe EXCEPT ![p] = IdleProbe]
    /\ UNCHANGED <<config, jwksSets, fresh, gate, call>>

Next ==
    \/ \E r \in Requests : GateBegin(r)
    \/ \E r \in Requests : GateResume(r)
    \/ \E r \in Requests : GateReturn(r)
    \/ Expire

Spec == Init /\ [][Next]_vars

\* Direct callers of verifyAgentIDToken, with no proxy in front.
InitVerify ==
    /\ config = createAgentIDMiddleware(<<>>)
    /\ jwksSets = <<>>
    /\ fresh = {}
    /\ gate = [r \in Requests |-> IdleGate]
    /\ call = [c \in Callers |-> IdleCall]
    /\ probe = [p \in Probes |-> IdleProbe]

NextVerify ==
    \/ \E c \in Callers : CallBegin(c)
    \/ \E c \in Callers : CallResume(c)
    \/ \E c \in Callers : CallReturn(c)
    \/ Expire

SpecVerify == InitVerify /\ [][NextVerify]_vars

\* The proxy with its default options next to direct callers, on tokens
\* that differ in exp alone.
NextExpiry ==
    \/ \E r \in Requests : GateBeginOf(r, ExpiryRequests)
    \/ \E r \in Requests : GateResume(r)
    \/ \E r \in Requests : GateReturn(r)
    \/ \E c \in Callers : CallBeginOf(c, ExpiryInputs)
    \/ \E c \in Callers : CallResume(c)
    \/ \E c \in Callers : CallReturn(c)
    \/ Expire

SpecExpiry == InitVerify /\ [][NextExpiry]_vars

\* The proxy with the route handlers behind it.
NextResult ==
    \/ \E r \in Requests : GateBegin(r)
    \/ \E r \in Requests : GateResume(r)
    \/ \E r \in Requests : Downstream(r)
    \/ \E r \in Requests : GateReturn(r)
    \/ Expire

SpecResult == Init /\ [][NextResult]_vars

\* The proxy next to direct callers, on endpoints of every kind.
InitCache ==
    /\ config \in {createAgentIDMiddleware(o) : o \in CacheOptions}
    /\ jwksSets = <<>>
    /\ fresh = {}
    /\ gate = [r \in Requests |-> IdleGate]
    /\ call = [c \in Callers |-> IdleCall]
    /\ probe = [p \in Probes |-> IdleProbe]

NextCache ==
    \/ \E r \in Requests : GateBeginOf(r, CacheRequests)
    \/ \E r \in Requests : GateResume(r)
    \/ \E r \in Requests : GateReturn(r)
    \/ \E c \in Callers : CallBeginOf(c, CacheInputs)
    \/ \E c \in Callers : CallResume(c)
    \/ \E c \in Callers : CallReturn(c)
    \/ Expire

SpecCache == InitCache /\ [][NextCache]_vars

\* Direct callers of the functions of detect.ts.
NextDetect ==
    \/ \E p \in Probes : Classify(p)
    \/ \E p \in Probes : Extract(p)
    \/ \E p \in Probes : ProbeReturn(p)

SpecDetect == InitVerify /\ [][NextDetect]_vars

(***************************************************************************)
(* Properties.                                                             *)
(***************************************************************************)
\* Every step of verifyAgentIDToken was performed and none threw.
VerifiedOK(v) == v.err = NoError /\ v.steps = <<"getJwks">> \o VerifySteps

\* The headers of a request without the three reserved names.
WithoutReserved(request) ==
    [n \in DOMAIN request \ {"x-agentid-verified", "x-agentid-sub", "x-agentid-claims"} |->
        request[n]]

HeaderIs(headers, name, value) == name \in DOMAIN headers /\ headers[name] = value

\* C1 (anti-spoofing): in the headers the proxy forwards, x-agentid-verified
\* is "true", and x-agentid-sub and x-agentid-claims are present, only when
\* the verification of that same request succeeded, and then they carry the
\* subject and the claims of that request's token; whatever the client put in
\* the three reserved headers is not forwarded.
C1_AntiSpoofing ==
    \A r \in Requests :
        (gate[r].pc = "done" /\ gate[r].response.kind = "next") =>
            \E g \in {gate[r]}, h \in {gate[r].response.headers} :
                /\ HeaderIs(h, "x-agentid-verified", <<"t","r","u","e">>) => VerifiedOK(g.verify)
                /\ "x-agentid-sub" \in DOMAIN h =>
                       /\ VerifiedOK(g.verify)
                       /\ h["x-agentid-sub"] = Decode(g.token).payload.sub.s
                /\ "x-agentid-claims" \in DOMAIN h =>
                       /\ VerifiedOK(g.verify)
                       /\ h["x-agentid-claims"] = JSONStringify(Decode(g.token).payload)
                /\ "x-agentid-verified" \in DOMAIN h =>
                       \/ VerifiedOK(g.verify) /\ h["x-agentid-verified"] = <<"t","r","u","e">>
                       \/ /\ ~VerifiedOK(g.verify)
                          /\ h["x-agentid-verified"] = <<"f","a","l","s","e">>
                          /\ g.trace[Len(g.trace)] = "unauthorized"
                /\ \A n \in DOMAIN h \ {"x-agentid-verified", "x-agentid-sub", "x-agentid-claims"} :
                       HeaderIs(g.request, n, h[n])

\* Two requests were in the proxy together, both forged the reserved headers,
\* and each was forwarded with the subject of its own verified token.
C1_Witness ==
    \E r1, r2 \in Requests :
        /\ r1 # r2
        /\ gate[r1].pc = "done" /\ gate[r2].pc = "done"
        /\ HeaderIs(gate[r1].request, "x-agentid-sub", <<"v","i","c","t","i","m">>)
        /\ HeaderIs(gate[r1].request, "x-agentid-verified", <<"t","r","u","e">>)
        /\ gate[r1].response.kind = "next" /\ gate[r2].response.kind = "next"
        /\ HeaderIs(gate[r1].response.headers, "x-agentid-sub", <<"x","y","z","7","8","9">>)
        /\ HeaderIs(gate[r2].response.headers, "x-agentid-sub", <<"a","b","c","1","2","3">>)

\* C2 (human pass-through): a request the classifier takes for human is
\* answered at once by forwarding its headers, less the three reserved names
\* and otherwise unchanged: no token is extracted, the key-set cache is not
\* consulted, nothing is verified, the callback is not called and there is
\* no rejection and no error, whatever the configuration.
C2_HumanPassThrough ==
    \A r \in Requests :
        (gate[r].pc # "idle" /\ ~Handled[gate[r].request].agent) =>
            /\ gate[r].pc = "done"
            /\ gate[r].response = [NoResponse EXCEPT !.kind = "next", !.status = 200,
                                       !.headers = WithoutReserved(gate[r].request)]
            /\ gate[r].trace = <<"strip", "classify">>
            /\ gate[r].token = Null
            /\ gate[r].verify = NoVerify
            /\ gate[r].calls = <<>>

\* A browser request, carrying a token and forged headers or not, passed a
\* proxy whose endpoint is malformed or insecure, and the cache is untouched.
C2_Witness ==
    \E r \in Requests :
        /\ gate[r].pc = "done"
        /\ ~Handled[gate[r].request].agent
        /\ "authorization" \in DOMAIN gate[r].request
        /\ config.jwksUrl \in {MalformedUrl, InsecureUrl}
        /\ jwksSets = <<>>

\* An agent request that carried a token whose verification threw.
FailedVerification(g) ==
    g.pc = "done" /\ Handled[g.request].agent /\ g.token # Null /\ g.verify.err # NoError

\* What the client and the route handler can see of a finished request, the
\* Authorization header it sent itself left out.
Outcome(g) ==
    [response |-> [g.response EXCEPT !.headers = Drop(@, "authorization")], calls |-> g.calls]

\* C3 (uniform failure): for an agent request with a token, whatever
\* verifyAgentIDToken throws (malformed token, rejected algorithm, unknown
\* kid, bad signature, issuer, expiry, auth_method, subject, failed fetch) is
\* caught: no exception leaves the handler, the request ends in
\* unauthorized() with the message "Invalid or expired AgentID token." and
\* nothing of the error thrown; two such requests that differ in the token
\* alone have the same outcome.
C3_UniformFailure ==
    /\ \A r \in Requests :
          ("verify" \in Range(gate[r].trace) /\ gate[r].pc = "done") =>
              gate[r].response.kind # "throw"
    /\ \A r \in Requests : FailedVerification(gate[r]) =>
          \E g \in {gate[r]} :
            /\ g.trace = <<"strip", "classify", "extract", "verify", "unauthorized">>
            /\ g.calls = IF config.onUnauthorizedAgent = "undefined" THEN <<>>
                         ELSE <<INVALID_TOKEN_MESSAGE>>
            /\ g.response.kind \in {"json", "custom", "next"}
            /\ g.response.kind \in {"json", "custom"} =>
                   g.response.message = <<"I","n","v","a","l","i","d"," ","o","r"," ","e","x","p","i","r","e","d"," ","A","g","e","n","t","I","D"," ","t","o","k","e","n",".">>
            /\ g.response.kind = "next" =>
                   /\ g.response.message = <<>>
                   /\ HeaderIs(g.response.headers, "x-agentid-verified", <<"f","a","l","s","e">>)
                   /\ Drop(g.response.headers, "x-agentid-verified") =
                          WithoutReserved(g.request)
    /\ \A r1, r2 \in Requests :
          (/\ FailedVerification(gate[r1]) /\ FailedVerification(gate[r2])
           /\ Drop(gate[r1].request, "authorization") = Drop(gate[r2].request, "authorization"))
          => Outcome(gate[r1]) = Outcome(gate[r2])

\* Two requests in the proxy together, one whose key fetch failed and one
\* whose token had expired, were answered alike.
C3_Witness ==
    \E r1, r2 \in Requests :
        /\ FailedVerification(gate[r1]) /\ FailedVerification(gate[r2])
        /\ gate[r1].verify.err.kind = "NetworkFailure"
        /\ gate[r2].verify.err.kind = "TokenExpired"
        /\ Drop(gate[r1].request, "authorization") = Drop(gate[r2].request, "authorization")
        /\ Outcome(gate[r1]) = Outcome(gate[r2])
        /\ gate[r1].response.kind = "json"

\* An agent request that reached unauthorized(), and the reason it was given.
UnauthorizedAgent(g) ==
    g.pc = "done" /\ Handled[g.request].agent /\ (g.token = Null \/ g.verify.err # NoError)

ReasonOf(g) == IF g.token = Null THEN NO_TOKEN_MESSAGE ELSE INVALID_TOKEN_MESSAGE

\* C4 (unauthorized path): for every agent request with no token or with a
\* token that fails, the callback, when configured, is called exactly once
\* with the reason, and the response it returns is the response of the
\* proxy whatever blockUnauthorizedAgents is; with no callback, or one that
\* returns nothing, blockUnauthorizedAgents = true gives status 403 with
\* { error: "AGENT_UNAUTHORIZED", message: reason } and nothing is
\* forwarded.  curl/7.88.1 with no token and the default options gets that
\* body.
C4_UnauthorizedPath ==
    \A r \in Requests : UnauthorizedAgent(gate[r]) =>
        \E g \in {gate[r]}, reason \in {ReasonOf(gate[r])} :
            /\ g.calls = IF config.onUnauthorizedAgent = "undefined" THEN <<>> ELSE <<reason>>
            /\ config.onUnauthorizedAgent = "respond" =>
                   g.response = [kind |-> "custom", status |-> 401, error |-> "CUSTOM",
                                 message |-> reason, headers |-> <<>>]
            /\ (config.onUnauthorizedAgent # "respond" /\ config.blockUnauthorizedAgents) =>
                   g.response = [kind |-> "json", status |-> 403, error |-> "AGENT_UNAUTHORIZED",
                                 message |-> reason, headers |-> <<>>]
            /\ (g.request = H1("user-agent", <<"c","u","r","l","/","7",".","8","8",".","1">>)
                   /\ config = createAgentIDMiddleware(<<>>)) =>
                   g.response = [kind |-> "json", status |-> 403, error |-> "AGENT_UNAUTHORIZED",
                                 message |-> <<"A","g","e","n","t"," ","r","e","q","u","e","s","t"," ","m","i","s","s","i","n","g"," ","A","g","e","n","t","I","D"," ","t","o","k","e","n","."," ","P","r","o","v","i","d","e"," ","\"","A","u","t","h","o","r","i","z","a","t","i","o","n",":"," ","B","e","a","r","e","r"," ","<","t","o","k","e","n",">","\"",".">>,
                                 headers |-> <<>>]

\* A blocking proxy whose callback answers: the callback's response was used
\* for a token that failed.
C4_Witness ==
    \E r \in Requests :
        /\ UnauthorizedAgent(gate[r])
        /\ gate[r].token # Null
        /\ config.onUnauthorizedAgent = "respond" /\ config.blockUnauthorizedAgents
        /\ gate[r].response.kind = "custom"
        /\ gate[r].calls = <<INVALID_TOKEN_MESSAGE>>

\* C5 (non-blocking mode): with blockUnauthorizedAgents = false and no
\* response from the callback, every agent request with no token or a
\* failing token is forwarded with x-agentid-verified exactly "false" and
\* neither x-agentid-sub nor x-agentid-claims, and every request taken for
\* human is forwarded with no x-agentid-verified: the two are never alike.
C5_NonBlocking ==
    (~config.blockUnauthorizedAgents /\ config.onUnauthorizedAgent # "respond") =>
        /\ \A r \in Requests : UnauthorizedAgent(gate[r]) =>
              /\ gate[r].response.kind = "next" /\ gate[r].response.status = 200
              /\ HeaderIs(gate[r].response.headers, "x-agentid-verified", <<"f","a","l","s","e">>)
              /\ "x-agentid-sub" \notin DOMAIN gate[r].response.headers
              /\ "x-agentid-claims" \notin DOMAIN gate[r].response.headers
        /\ \A r \in Requests :
              (gate[r].pc = "done" /\ ~Handled[gate[r].request].agent) =>
                  /\ gate[r].response.kind = "next"
                  /\ "x-agentid-verified" \notin DOMAIN gate[r].response.headers
        /\ \A r1, r2 \in Requests :
              (UnauthorizedAgent(gate[r1]) /\ gate[r2].pc = "done"
                 /\ ~Handled[gate[r2].request].agent) =>
                  gate[r1].response.headers # gate[r2].response.headers

\* A non-blocking proxy forwarded, together, a human who forged the marker
\* and an agent who forged all three headers and sent a forged token.
C5_Witness ==
    \E r1, r2 \in Requests :
        /\ ~config.blockUnauthorizedAgents /\ config.onUnauthorizedAgent = "void"
        /\ UnauthorizedAgent(gate[r1]) /\ gate[r1].token # Null
        /\ HeaderIs(gate[r1].request, "x-agentid-sub", <<"v","i","c","t","i","m">>)
        /\ gate[r1].response.kind = "next"
        /\ gate[r2].pc = "done" /\ ~Handled[gate[r2].request].agent
        /\ HeaderIs(gate[r2].request, "x-agentid-verified", <<"t","r","u","e">>)
        /\ gate[r2].response.kind = "next"

EndpointErrors == {"MalformedEndpoint", "InsecureEndpoint"}

\* C6 (endpoint errors surface): when the configured endpoint does not parse
\* or is neither HTTPS nor loopback, verifyAgentIDToken fails with the
\* endpoint error, and the proxy handling an agent request with a token
\* reports that error too: it does not take the unauthorized path with
\* "Invalid or expired AgentID token.".
C6_EndpointErrorsSurface ==
    /\ \A c \in Callers :
          (call[c].pc = "done" /\ ~NewURL(JwksUrlOf(call[c].options)).ok) =>
              call[c].verify.err.kind = "MalformedEndpoint"
    /\ \A r \in Requests :
          (gate[r].pc = "done" /\ gate[r].verify.err.kind \in EndpointErrors) =>
              /\ gate[r].response.kind = "throw"
              /\ gate[r].response.message = gate[r].verify.err.message
              /\ gate[r].response.message # <<"I","n","v","a","l","i","d"," ","o","r"," ","e","x","p","i","r","e","d"," ","A","g","e","n","t","I","D"," ","t","o","k","e","n",".">>
              /\ gate[r].trace[Len(gate[r].trace)] # "unauthorized"
              /\ gate[r].calls = <<>>

\* The checks the order is claimed of, and the error each throws.
NamedChecks ==
    <<"parse", "alg", "key", "signature", "iss", "exp", "auth_method", "sub">>

IsPrefix(s, t) == Len(s) <= Len(t) /\ s = SubSeq(t, 1, Len(s))

StepOfError(kind) ==
    CASE kind = "AlgorithmRejected" -> {"alg"}
      [] kind \in {"NetworkFailure", "UnknownKeyId"} -> {"key"}
      [] kind = "SignatureInvalid"  -> {"signature"}
      [] kind = "IssuerMismatch"    -> {"iss"}
      [] kind = "NotYetValid"       -> {"nbf"}
      [] kind = "TokenExpired"      -> {"exp"}
      [] kind = "InvalidAuthMethod" -> {"auth_method"}
      [] kind = "MissingSubject"    -> {"sub"}
      [] kind = "MalformedToken"    -> {"parse", "payload", "iat", "exp"}
      [] kind \in EndpointErrors    -> {"getJwks"}

\* The signature of the token is one made with the key the endpoint
\* publishes under the token's kid.
SignedByEndpoint(jws, rawUrl) ==
    jws.kid \in DOMAIN RemoteKeys(rawUrl) /\ jws.signer = RemoteKeys(rawUrl)[jws.kid]

\* C7 (order of the checks): structural parse, algorithm allowlist, key
\* resolution, signature, issuer, expiry, auth_method and subject are
\* performed in that order and nothing is performed after the first check
\* that fails; for a token whose alg is not exactly RS256 there is no key
\* resolution, no fetch and no signature step, and for a token whose
\* signature does not verify no issuer, expiry or claim check.
C7_CheckOrder ==
    \A c \in Callers : call[c].pc # "idle" =>
        \E k \in {call[c]}, jws \in {Decode(call[c].token)} :
        \E steps \in {k.verify.steps} :
            /\ IsPrefix(SelectSeq(steps, LAMBDA x : x \in Range(NamedChecks)), NamedChecks)
            /\ \A i, j \in DOMAIN steps : i # j => steps[i] # steps[j]
            /\ k.verify.err # NoError =>
                   /\ k.pc = "done"
                   /\ steps[Len(steps)] \in StepOfError(k.verify.err.kind)
            /\ (k.pc = "done" /\ k.verify.err = NoError) =>
                   Range(NamedChecks) \subseteq Range(steps)
            /\ jws.alg # "RS256" =>
                   /\ k.pc = "done"
                   /\ k.verify.err.kind \in {"AlgorithmRejected", "MalformedToken"} \cup EndpointErrors
                   /\ Range(steps) \cap {"key", "signature"} = {}
                   /\ ~k.verify.fetchFailed
            /\ ~SignedByEndpoint(jws, JwksUrlOf(k.options)) =>
                   Range(steps) \cap {"payload", "iss", "iat", "nbf", "exp", "auth_method", "sub"} = {}
            /\ (k.pc = "done" /\ k.token = <<"forgedBad">> /\ ~k.verify.fetchFailed) =>
                   k.verify.err.kind = "SignatureInvalid"
            /\ (k.pc = "done" /\ k.token = <<"evilOld">> /\ ~k.verify.fetchFailed) =>
                   k.verify.err.kind = "IssuerMismatch"
            /\ (k.pc = "done" /\ k.token = <<"oldPass">> /\ ~k.verify.fetchFailed) =>
                   k.verify.err.kind = "TokenExpired"
            /\ (k.pc = "done" /\ k.token = <<"passNoSub">> /\ ~k.verify.fetchFailed) =>
                   k.verify.err.kind = "InvalidAuthMethod"

\* A token with alg "none" was rejected at the allowlist, before any key was
\* fetched for the endpoint.
C7_Witness ==
    \E c \in Callers :
        /\ call[c].pc = "done"
        /\ call[c].token = <<"none">>
        /\ call[c].verify.steps = <<"getJwks", "parse", "alg">>
        /\ call[c].verify.err.kind = "AlgorithmRejected"
        /\ JwksUrlOf(call[c].options) \in DOMAIN jwksSets
        /\ fresh = {}

\* The token is one the claim has verify accept at the time `now`: well
\* formed, RS256, signed by a key the admitted endpoint publishes, issued by
\* "agentid", carrying an exp that has not passed, auth_method "bankid" and
\* a sub that is a non-empty string.
Acceptable(jws, rawUrl, now, tolerance) ==
    /\ jws.segments = 3 /\ jws.headerOk /\ jws.payloadOk
    /\ rawUrl \in DOMAIN jwksSets
    /\ jws.alg = "RS256"
    /\ SignedByEndpoint(jws, rawUrl)
    /\ "iss" \in DOMAIN jws.payload /\ jws.payload.iss = Str(<<"a","g","e","n","t","i","d">>)
    /\ "exp" \in DOMAIN jws.payload /\ IsNum(jws.payload.exp)
    /\ jws.payload.exp.n > now - tolerance
    /\ "auth_method" \in DOMAIN jws.payload /\ jws.payload.auth_method = Str(<<"b","a","n","k","i","d">>)
    /\ "sub" \in DOMAIN jws.payload /\ IsStr(jws.payload.sub) /\ jws.payload.sub.s # <<>>

\* The Claims data model (AgentIDClaims).
IsAgentIDClaims(claims) ==
    /\ {"sub", "iss", "exp", "auth_method"} \subseteq DOMAIN claims
    /\ IsStr(claims.sub) /\ claims.sub.s # <<>>
    /\ claims.iss = Str(<<"a","g","e","n","t","i","d">>)
    /\ IsNum(claims.exp)
    /\ claims.auth_method = Str(<<"b","a","n","k","i","d">>)

\* C8 (the contract of verify): with the key set reachable, verify returns
\* claims exactly for the tokens that are RS256-signed by a key of the
\* endpoint, have iss "agentid", are not expired, have auth_method "bankid"
\* and a non-empty string sub; what it returns is the payload of the token
\* and satisfies the Claims data model (exp present as a number); when a
\* check fails nothing is returned, and a missing or different auth_method
\* fails with an error that names auth_method.
C8_VerifyContract ==
    \A c \in Callers : (call[c].pc = "done" /\ ~call[c].verify.fetchFailed) =>
        \E k \in {call[c]}, jws \in {Decode(call[c].token)} :
            /\ (k.verify.err = NoError) <=>
                   Acceptable(jws, JwksUrlOf(k.options), k.verify.now, ToleranceOf(k.options))
            /\ k.verify.err = NoError =>
                   /\ k.verify.claims = jws.payload
                   /\ IsAgentIDClaims(k.verify.claims)
            /\ k.verify.err # NoError => k.verify.claims = <<>>
            /\ k.verify.err.kind = "InvalidAuthMethod" =>
                   IndexOf(k.verify.err.message, <<"a","u","t","h","_","m","e","t","h","o","d">>, 1) # 0
            /\ (k.token \in {<<"password">>, <<"noAuth">>}) =>
                   k.verify.err.kind = "InvalidAuthMethod"

\* A finished verification that got as far as the check of exp on a payload
\* whose exp is a number; what the check found.
AtExpiry(v, jws) ==
    "exp" \in Range(v.steps) /\ "exp" \in DOMAIN jws.payload /\ IsNum(jws.payload.exp)

ExpiryAccepted(v) == v.err = NoError /\ "auth_method" \in Range(v.steps)
ExpiryRejected(v) == v.err.kind = "TokenExpired" /\ v.steps[Len(v.steps)] = "exp"

\* The verifications in the state: exp of the token, the clock read, the
\* tolerance in force (30 when the option is not given) and the result.
ExpiryChecks ==
    {[exp |-> Decode(call[c].token).payload.exp.n, now |-> call[c].verify.now,
      tolerance |-> IF "clockTolerance" \in DOMAIN call[c].options
                    THEN call[c].options.clockTolerance ELSE 30,
      v |-> call[c].verify] :
        c \in {c \in Callers : call[c].pc = "done"
                                  /\ AtExpiry(call[c].verify, Decode(call[c].token))}}
    \cup
    {[exp |-> Decode(gate[r].token).payload.exp.n, now |-> gate[r].verify.now,
      tolerance |-> 30, v |-> gate[r].verify] :
        r \in {r \in Requests : gate[r].pc = "done" /\ gate[r].token # Null
                                   /\ AtExpiry(gate[r].verify, Decode(gate[r].token))}}

\* C9 as the claim has it: accepted exactly when exp >= now - clockTolerance.
C9_ExpiryInclusive ==
    \A x \in ExpiryChecks :
        /\ ExpiryAccepted(x.v) <=> x.exp >= x.now - x.tolerance
        /\ ExpiryRejected(x.v) <=> ~(x.exp >= x.now - x.tolerance)
        /\ (x.tolerance = 0 /\ x.exp < x.now) => ExpiryRejected(x.v)

\* C9 (expiry boundary), amended: a token that passes every earlier check
\* and carries a numeric exp is accepted by the expiry check exactly when
\* exp > now - clockTolerance, clockTolerance being 30 by default in verify
\* and in the proxy, and is rejected as expired otherwise, exp = now -
\* clockTolerance included; with clockTolerance = 0 every token whose exp
\* is not in the future is rejected.
C9_ExpiryBoundary ==
    \A x \in ExpiryChecks :
        /\ ExpiryAccepted(x.v) <=> x.exp > x.now - x.tolerance
        /\ ExpiryRejected(x.v) <=> ~(x.exp > x.now - x.tolerance)
        /\ (x.tolerance = 0 /\ x.exp <= x.now) => ExpiryRejected(x.v)

\* The proxy with its default tolerance rejected a token at exp = now - 30
\* while a caller with clockTolerance 0 had one accepted a second before exp.
C9_Witness ==
    \E r \in Requests, c \in Callers :
        /\ gate[r].pc = "done" /\ gate[r].token # Null
        /\ AtExpiry(gate[r].verify, Decode(gate[r].token))
        /\ Decode(gate[r].token).payload.exp.n = gate[r].verify.now - 30
        /\ ExpiryRejected(gate[r].verify)
        /\ call[c].pc = "done" /\ AtExpiry(call[c].verify, Decode(call[c].token))
        /\ call[c].options = [clockTolerance |-> 0]
        /\ Decode(call[c].token).payload.exp.n = call[c].verify.now + 1
        /\ ExpiryAccepted(call[c].verify)

Loopback == {<<"l","o","c","a","l","h","o","s","t">>, <<"1","2","7",".","0",".","0",".","1">>, <<":",":","1">>}

\* The host of a parsed URL; an IPv6 address is written in brackets.
HostOf(url) ==
    IF url.hostname # <<>> /\ url.hostname[1] = "["
    THEN SubSeq(url.hostname, 2, Len(url.hostname) - 1)
    ELSE url.hostname

\* C10 (endpoint security check): getJwks fails with the HTTPS error for
\* every endpoint whose scheme is not https and whose host is none of
\* localhost, 127.0.0.1, ::1; it succeeds for every https endpoint and for
\* every endpoint of any scheme on one of those hosts; and it fails with the
\* malformed-endpoint error when the URL does not parse.
C10_EndpointSecurity ==
    \A c \in Callers : call[c].pc # "idle" =>
        \E rawUrl \in {JwksUrlOf(call[c].options)}, v \in {call[c].verify} :
        \E url \in {NewURL(rawUrl)} :
            /\ ~url.ok => v.err.kind = "MalformedEndpoint" /\ rawUrl \notin DOMAIN jwksSets
            /\ (url.ok /\ url.protocol # <<"h","t","t","p","s",":">> /\ HostOf(url) \notin Loopback) =>
                   /\ v.err.kind = "InsecureEndpoint"
                   /\ IndexOf(v.err.message, <<"m","u","s","t"," ","u","s","e"," ","H","T","T","P","S">>, 1) # 0
                   /\ rawUrl \notin DOMAIN jwksSets
            /\ (url.ok /\ (url.protocol = <<"h","t","t","p","s",":">> \/ HostOf(url) \in Loopback)) =>
                   /\ v.err.kind \notin EndpointErrors
                   /\ rawUrl \in DOMAIN jwksSets

\* The argument and the result of a finished call of isAgentRequest.
Classified(q) == q.pc = "done" /\ q.op = "isAgentRequest"

\* The value of a header, absent and empty being alike.
ValueOf(headers, name) == IF name \in DOMAIN headers THEN headers[name] ELSE <<>>

\* What the reader finds in a sample User-Agent.
FoundIn(ua) == CHOOSE u \in UASamples : u.ua = ua

\* The classification by the ordered rules of the claim.
ByRules(headers) ==
    IF ValueOf(headers, "user-agent") = <<>> THEN TRUE
    ELSE IF FoundIn(headers["user-agent"]).signature THEN TRUE
    ELSE IF ~FoundIn(headers["user-agent"]).browser
            /\ ValueOf(headers, "accept-language") = <<>> THEN TRUE
    ELSE FALSE

\* C11 (classifier): isAgentRequest returns what the ordered rules give:
\* true when User-Agent is missing or empty; else true when it matches one
\* of the automation signatures; else true when it lacks the browser marker
\* and Accept-Language is absent or empty; else false.  A non-browser
\* User-Agent with Accept-Language is human, and two header sets that agree
\* on User-Agent and Accept-Language are classified alike.
C11_Classifier ==
    /\ \A p \in Probes : Classified(probe[p]) =>
          /\ probe[p].agent = ByRules(probe[p].headers)
          /\ (ValueOf(probe[p].headers, "user-agent") = <<"M","y","C","u","s","t","o","m","A","g","e","n","t","/","1",".","0">>
                /\ ValueOf(probe[p].headers, "accept-language") = <<"e","n">>) =>
                 probe[p].agent = FALSE
    /\ \A p, q \in Probes :
          (/\ Classified(probe[p]) /\ Classified(probe[q])
           /\ \A n \in {"user-agent", "accept-language"} :
                 /\ (n \in DOMAIN probe[p].headers) = (n \in DOMAIN probe[q].headers)
                 /\ ValueOf(probe[p].headers, n) = ValueOf(probe[q].headers, n))
          => probe[p].agent = probe[q].agent

\* Two calls with the same non-browser User-Agent and Accept-Language, one
\* with a forged marker and one with a token, were both classified human.
C11_Witness ==
    \E p, q \in Probes :
        /\ Classified(probe[p]) /\ Classified(probe[q])
        /\ HeaderIs(probe[p].headers, "user-agent", <<"M","y","C","u","s","t","o","m","A","g","e","n","t","/","1",".","0">>)
        /\ HeaderIs(probe[q].headers, "user-agent", <<"M","y","C","u","s","t","o","m","A","g","e","n","t","/","1",".","0">>)
        /\ HeaderIs(probe[p].headers, "accept-language", <<"e","n">>)
        /\ HeaderIs(probe[q].headers, "accept-language", <<"e","n">>)
        /\ "x-agentid-verified" \in DOMAIN probe[p].headers
        /\ "authorization" \in DOMAIN probe[q].headers
        /\ ~probe[p].agent /\ ~probe[q].agent

\* The argument and the result of a finished call of extractToken.
ExtractedFrom(q) == q.pc = "done" /\ q.op = "extractToken"

\* The token the reader takes from a header of the samples, Null when the
\* header is absent.
TakenFrom(samples, headers, name) ==
    IF name \in DOMAIN headers
    THEN (CHOOSE x \in samples : x.value = headers[name]).token
    ELSE Null

\* C12 (extractor): extractToken returns the trimmed remainder of
\* Authorization when it starts with exactly "Bearer " and the remainder is
\* not empty, whatever x-agentid-token holds; "Bearer " with nothing after
\* it and a scheme other than Bearer give no token; otherwise it returns
\* the trimmed x-agentid-token when that is not empty, and null when not.
\* The result is never the empty string.
C12_Extractor ==
    \A p \in Probes : ExtractedFrom(probe[p]) =>
        \E h \in {probe[p].headers}, token \in {probe[p].token} :
        \E primary \in {TakenFrom(AuthorizationSamples, h, "authorization")},
           fallback \in {TakenFrom(FallbackSamples, h, "x-agentid-token")} :
            /\ primary # Null => token = primary
            /\ (primary = Null /\ fallback # Null) => token = fallback
            /\ (primary = Null /\ fallback = Null) => token = Null
            /\ (ValueOf(h, "authorization") \in {<<"B","e","a","r","e","r"," ">>, <<"B","a","s","i","c"," ","d","X","N","l","c","j","p","w","Y","X","N","z">>}
                  /\ "x-agentid-token" \notin DOMAIN h) => token = Null
            /\ token # <<>>

\* Both headers carried a token and the one of Authorization was returned,
\* while a second call with "Bearer " alone fell back to x-agentid-token.
C12_Witness ==
    \E p, q \in Probes :
        /\ ExtractedFrom(probe[p]) /\ ExtractedFrom(probe[q])
        /\ HeaderIs(probe[p].headers, "authorization", <<"B","e","a","r","e","r"," ","p","r","i","m","a","r","y","-","t","o","k","e","n">>)
        /\ HeaderIs(probe[p].headers, "x-agentid-token", <<"f","a","l","l","b","a","c","k","-","t","o","k","e","n">>)
        /\ probe[p].token = <<"p","r","i","m","a","r","y","-","t","o","k","e","n">>
        /\ HeaderIs(probe[q].headers, "authorization", <<"B","e","a","r","e","r"," ">>)
        /\ HeaderIs(probe[q].headers, "x-agentid-token", <<" "," ","m","y",".","t","o","k","e","n",".","h","e","r","e"," "," ">>)
        /\ probe[q].token = <<"m","y",".","t","o","k","e","n",".","h","e","r","e">>

\* C13 (the result reaches the route handler): getAgentIDResult on the
\* headers the proxy forwards gives Verified with exactly the claims of the
\* token when the verification succeeded, Unverified not_agent for a
\* request taken for human, Unverified no_token for an agent request with no
\* token and Unverified invalid_token for an agent request whose token
\* failed.
C13_ResultCarried ==
    \A r \in Requests : gate[r].pc = "handled" =>
        \E g \in {gate[r]} :
            /\ (g.token # Null /\ VerifiedOK(g.verify)) =>
                   g.result = [verified |-> TRUE, reason |-> "",
                               claims |-> Decode(g.token).payload]
            /\ ~Handled[g.request].agent =>
                   g.result = [verified |-> FALSE, reason |-> "not_agent", claims |-> <<>>]
            /\ (Handled[g.request].agent /\ g.token = Null) =>
                   g.result = [verified |-> FALSE, reason |-> "no_token", claims |-> <<>>]
            /\ (Handled[g.request].agent /\ g.token # Null /\ g.verify.err # NoError) =>
                   g.result = [verified |-> FALSE, reason |-> "invalid_token", claims |-> <<>>]

\* The endpoint a get is for, and whether the get threw.
EndpointOf(k) == JwksUrlOf(k.options)
GetFailed(v) == v.err.kind \in EndpointErrors

\* The calls and requests that are past their get in the state.
CallsPastGet == {c \in Callers : call[c].pc # "idle"}
GatesPastGet == {r \in Requests : gate[r].pc # "idle" /\ gate[r].token # Null}

\* What holds of the cache in every state: an entry for the endpoint of
\* every get that succeeded, with the handle that get returned, none for an
\* endpoint whose get failed, one handle per entry, and only HTTPS or
\* loopback endpoints.
CacheSound ==
    /\ \A c \in CallsPastGet :
          IF GetFailed(call[c].verify)
          THEN EndpointOf(call[c]) \notin DOMAIN jwksSets
          ELSE /\ EndpointOf(call[c]) \in DOMAIN jwksSets
               /\ call[c].handle = jwksSets[EndpointOf(call[c])]
    /\ \A r \in GatesPastGet :
          GetFailed(gate[r].verify) <=> JwksUrlOf(VerifyOptionsOf(config)) \notin DOMAIN jwksSets
    /\ \A u, w \in DOMAIN jwksSets : jwksSets[u] = jwksSets[w] => u = w
    /\ \A u \in DOMAIN jwksSets :
          /\ NewURL(u).ok
          /\ NewURL(u).protocol = <<"h","t","t","p","s",":">> \/ HostOf(NewURL(u)) \in Loopback

\* What holds of every step: no entry is removed or given another handle,
\* and a get that throws leaves the cache as it was.
CacheStep ==
    /\ \A u \in DOMAIN jwksSets : u \in DOMAIN jwksSets' /\ jwksSets'[u] = jwksSets[u]
    /\ \A c \in Callers :
          (call[c].pc = "idle" /\ call'[c].pc # "idle" /\ GetFailed(call'[c].verify)) =>
              jwksSets' = jwksSets
    /\ \A c \in Callers :
          (call[c].pc = "idle" /\ call'[c].pc # "idle" /\ ~GetFailed(call'[c].verify)) =>
              DOMAIN jwksSets' = DOMAIN jwksSets \cup {EndpointOf(call'[c])}
    /\ \A r \in Requests :
          (gate[r].pc = "idle" /\ gate'[r].pc # "idle" /\ GetFailed(gate'[r].verify)) =>
              jwksSets' = jwksSets

\* C14 (the key-set cache): under every interleaving of gets from requests
\* and callers the cache holds one entry for each endpoint string for which
\* a get succeeded and none for one whose get failed; every cached endpoint
\* is HTTPS or loopback; an entry is never removed or replaced, so a later
\* get for the string returns the same handle; a get that fails leaves the
\* cache unchanged.
C14_CacheInvariant == [](CacheSound) /\ [][CacheStep]_vars

\* A caller got the handle made for its endpoint by an earlier get, after a
\* second endpoint was cached, while a request of the proxy waited for keys.
C14_Witness ==
    \E c \in Callers, r \in Requests :
        /\ call[c].pc = "verifying"
        /\ Cardinality(DOMAIN jwksSets) >= 2
        /\ call[c].handle = 1
        /\ EndpointOf(call[c]) # JwksUrlOf(VerifyOptionsOf(config))
        /\ gate[r].pc = "verifying"
        /\ fresh # {}
====
